---------------------------- MODULE Spec2Model ----------------------------
(***************************************************************************)
(* A model of towl: the scanner that walks a source tree, the line parser  *)
(* that turns comment markers into TodoComment records, and the output     *)
(* stage that pairs a format with a sink.                                   *)
(*                                                                         *)
(* Text is modelled as sequences of one-character strings over ASCII, so   *)
(* byte offsets and character offsets coincide.                            *)
(***************************************************************************)
EXTENDS Integers, Sequences, FiniteSets, TLC

VARIABLES
    \* ---- Parser::parse on one content (specification SpecParse)
    parser,         \* the Parser built by Parser::new (compiled pattern families)
    cfgContext,     \* ParsingConfig.include_context_lines of the configuration
    content,        \* the content handed to Parser::parse
    lines,          \* the `lines` vector of Parser::parse: content.lines()
    line_idx,       \* number of lines of the content already classified
    todos,          \* the `todos` vector of Parser::parse
    parsePc,        \* "loop" while lines remain, "done" after Ok(todos)
    \* ---- Parser::new / Scanner::new (specification SpecNew)
    newConfig,      \* the ParsingConfig handed to the constructor
    newResult,      \* <<>> before the call, then <<Result>>
    \* ---- Output::new (specification SpecOutput)
    outFormat,      \* OutputFormat argument
    outPath,        \* Option<PathBuf> argument
    outResult,      \* <<>> before the call, then <<Result>>
    \* ---- the scan command, main .. scan_todos .. exit (specification Spec)
    run,            \* the whole state of one process run, a record
    \* ---- one call of a function of the program (the specifications of calls)
    call            \* <<>> when no call is modelled, else a record: the
                    \* function called, its arguments, and its result once
                    \* it has returned

parseVars == <<parser, cfgContext, content, lines, line_idx, todos, parsePc>>
newVars == <<newConfig, newResult>>
outVars == <<outFormat, outPath, outResult>>
vars == <<parser, cfgContext, content, lines, line_idx, todos, parsePc,
          newConfig, newResult, outFormat, outPath, outResult, run, call>>

-----------------------------------------------------------------------------
(* Bounds of the model *)

\* lines of a content drawn from the full line set
MaxLines == 2
\* lines of a content drawn from the two-line set (marker line, plain line)
MaxLong == 9
\* patterns per family in a configuration handed to Parser::new
MaxPatterns == 2
\* marker lines in a long content
MaxMarks == 2
\* entries the directory walk yields, when Scanner::scan is checked alone
MaxWalk == 3
\* entries the directory walk yields, in a run of the whole scan command
MaxTree == 2
\* lines handed to find_function_context
MaxCtxLines == 3
\* entries the directory walk yields, when every kind of entry is drawn
MaxVisit == 2
\* lines handed to a writer
MaxOut == 2
\* records handed to a formatter
MaxRecords == 2
\* words in a text given to TodoType::try_from
MaxWords == 2

-----------------------------------------------------------------------------
(* Option and Result *)

None == <<>>
Some(x) == <<x>>
IsSome(o) == Len(o) = 1
Unwrap(o) == o[1]

Ok(v) == [ok |-> TRUE, val |-> v, err |-> "-"]
Err(e) == [ok |-> FALSE, val |-> <<>>, err |-> e]

-----------------------------------------------------------------------------
(* Characters and strings *)

LowerLetters == <<"a","b","c","d","e","f","g","h","i","j","k","l","m",
                  "n","o","p","q","r","s","t","u","v","w","x","y","z">>
UpperLetters == <<"A","B","C","D","E","F","G","H","I","J","K","L","M",
                  "N","O","P","Q","R","S","T","U","V","W","X","Y","Z">>
DigitChars == <<"0","1","2","3","4","5","6","7","8","9">>

Range(s) == {s[i] : i \in DOMAIN s}

IsWhitespace(c) == c \in {" ", "\t", "\r", "\n"}
IsAlphanumeric(c) == c \in Range(LowerLetters) \cup Range(UpperLetters) \cup Range(DigitChars)
\* the regex class \w
IsWordChar(c) == IsAlphanumeric(c) \/ c = "_"

\* char::to_uppercase / the simple case folding of (?i), on ASCII
UpperChar(c) ==
    IF c \in Range(LowerLetters)
    THEN UpperLetters[CHOOSE i \in DOMAIN LowerLetters : LowerLetters[i] = c]
    ELSE c

\* str::to_uppercase
ToUppercase(s) == [i \in DOMAIN s |-> UpperChar(s[i])]

\* whether `sub` occurs in `s` at 1-based position p
OccursAt(s, sub, p) ==
    /\ p >= 1
    /\ p + Len(sub) - 1 <= Len(s)
    /\ \A j \in 1..Len(sub) : s[p + j - 1] = sub[j]

\* str::contains
Contains(s, sub) == \E p \in 1..(Len(s) + 1) : OccursAt(s, sub, p)

\* str::trim
TrimStartIdx(s) ==
    IF \A i \in DOMAIN s : IsWhitespace(s[i]) THEN Len(s) + 1
    ELSE CHOOSE i \in DOMAIN s :
            /\ ~IsWhitespace(s[i])
            /\ \A j \in 1..(i - 1) : IsWhitespace(s[j])
TrimEndIdx(s) ==
    IF \A i \in DOMAIN s : IsWhitespace(s[i]) THEN 0
    ELSE CHOOSE i \in DOMAIN s :
            /\ ~IsWhitespace(s[i])
            /\ \A j \in (i + 1)..Len(s) : IsWhitespace(s[j])
Trim(s) == SubSeq(s, TrimStartIdx(s), TrimEndIdx(s))

\* usize::to_string, the decimal digits of n
RECURSIVE ToDigits(_)
ToDigits(n) ==
    IF n < 10 THEN <<DigitChars[n + 1]>>
    ELSE ToDigits(n \div 10) \o <<DigitChars[(n % 10) + 1]>>

\* concatenation of a sequence of strings
RECURSIVE Concat(_)
Concat(ss) == IF ss = <<>> THEN <<>> ELSE Head(ss) \o Concat(Tail(ss))

\* [T]::join(sep)
RECURSIVE Join(_, _)
Join(ss, sep) ==
    IF ss = <<>> THEN <<>>
    ELSE IF Len(ss) = 1 THEN ss[1]
    ELSE ss[1] \o sep \o Join(Tail(ss), sep)

\* str::lines: split at "\n", a final empty piece is not a line, and a "\r"
\* right before the "\n" belongs to the line ending
StripCr(l) == IF Len(l) > 0 /\ l[Len(l)] = "\r" THEN SubSeq(l, 1, Len(l) - 1) ELSE l
RECURSIVE SplitLines(_, _)
SplitLines(s, cur) ==
    IF s = <<>> THEN (IF cur = <<>> THEN <<>> ELSE <<cur>>)
    ELSE IF Head(s) = "\n" THEN <<StripCr(cur)>> \o SplitLines(Tail(s), <<>>)
    ELSE SplitLines(Tail(s), Append(cur, Head(s)))
StrLines(s) == SplitLines(s, <<>>)

-----------------------------------------------------------------------------
(* The regex crate, for the class of patterns the configurations use.      *)
(* A compiled regex is a sequence of atoms and a number of capture groups; *)
(* matching is leftmost-first with backtracking, repetitions are greedy.   *)

Lit(s) == [t |-> "lit", s |-> s, ci |-> FALSE, min |-> 0, g |-> 0, inner |-> <<>>]
LitCi(s) == [t |-> "lit", s |-> s, ci |-> TRUE, min |-> 0, g |-> 0, inner |-> <<>>]
WordBoundary == [t |-> "wb", s |-> <<>>, ci |-> FALSE, min |-> 0, g |-> 0, inner |-> <<>>]
LineStart == [t |-> "bol", s |-> <<>>, ci |-> FALSE, min |-> 0, g |-> 0, inner |-> <<>>]
\* \s* and \s+
Spaces(min) == [t |-> "ws", s |-> <<>>, ci |-> FALSE, min |-> min, g |-> 0, inner |-> <<>>]
\* (\w+) as group g
WordGroup(g) == [t |-> "word", s |-> <<>>, ci |-> FALSE, min |-> 1, g |-> g, inner |-> <<>>]
\* (.*) as group g
AnyGroup(g) == [t |-> "any", s |-> <<>>, ci |-> FALSE, min |-> 0, g |-> g, inner |-> <<>>]
\* (inner)? as group g
OptGroup(g, inner) == [t |-> "opt", s |-> <<>>, ci |-> FALSE, min |-> 0, g |-> g, inner |-> inner]

Regex(atoms, ngroups) == [atoms |-> atoms, ngroups |-> ngroups]

LitAt(line, a, pos) ==
    /\ pos + Len(a.s) - 1 <= Len(line)
    /\ \A j \in 1..Len(a.s) :
          IF a.ci THEN UpperChar(line[pos + j - 1]) = UpperChar(a.s[j])
          ELSE line[pos + j - 1] = a.s[j]

\* \b holds between position pos-1 and pos (1-based) of the line
AtWordBoundary(line, pos) ==
    LET before == pos > 1 /\ IsWordChar(line[pos - 1])
        after == pos <= Len(line) /\ IsWordChar(line[pos])
    IN before # after

\* the length of the longest run of characters of a class starting at pos
RunLength(line, pos, t) ==
    LET InClass(c) == CASE t = "ws" -> IsWhitespace(c)
                        [] t = "word" -> IsWordChar(c)
                        [] OTHER -> c # "\n"
        stops == {i \in pos..Len(line) : ~InClass(line[i])}
    IN IF stops = {} THEN Len(line) - pos + 1
       ELSE (CHOOSE i \in stops : \A j \in stops : i <= j) - pos

SetGroup(caps, g, start, end) ==
    IF g = 0 THEN caps ELSE [caps EXCEPT ![g] = Some(<<start, end>>)]

\* the end of group g, which began at byte offset `start`
CloseGroup(g, start) == [t |-> "close", s |-> <<>>, ci |-> FALSE, min |-> start, g |-> g, inner |-> <<>>]

\* the preferred way the atoms k.. match at pos: none, or the end position
\* and the groups. A failure further on makes a repetition give back
\* characters, and an optional group step aside.
RECURSIVE MatchSeq(_, _, _, _, _)
RECURSIVE MatchRun(_, _, _, _, _, _)
MatchSeq(atoms, k, line, pos, caps) ==
    IF k > Len(atoms) THEN Some([pos |-> pos, caps |-> caps])
    ELSE LET a == atoms[k] IN
      CASE a.t = "lit" ->
             IF LitAt(line, a, pos)
             THEN MatchSeq(atoms, k + 1, line, pos + Len(a.s), caps) ELSE None
        [] a.t = "wb" ->
             IF AtWordBoundary(line, pos) THEN MatchSeq(atoms, k + 1, line, pos, caps) ELSE None
        [] a.t = "bol" ->
             IF pos = 1 THEN MatchSeq(atoms, k + 1, line, pos, caps) ELSE None
        [] a.t \in {"ws", "word", "any"} ->
             MatchRun(atoms, k, line, pos, caps, RunLength(line, pos, a.t))
        [] a.t = "close" ->
             MatchSeq(atoms, k + 1, line, pos, SetGroup(caps, a.g, a.min, pos - 1))
        [] a.t = "opt" ->
             LET taken == MatchSeq(a.inner \o <<CloseGroup(a.g, pos - 1)>>
                                       \o SubSeq(atoms, k + 1, Len(atoms)),
                                   1, line, pos, caps)
             IN IF IsSome(taken) THEN taken
                ELSE MatchSeq(atoms, k + 1, line, pos, caps)
\* a greedy repetition: the longest run first, then shorter ones
MatchRun(atoms, k, line, pos, caps, n) ==
    IF n < atoms[k].min THEN None
    ELSE LET m == MatchSeq(atoms, k + 1, line, pos + n,
                           SetGroup(caps, atoms[k].g, pos - 1, pos + n - 1))
         IN IF IsSome(m) THEN m
            ELSE MatchRun(atoms, k, line, pos, caps, n - 1)

\* the leftmost start >= p at which the regex matches, or 0
RECURSIVE FirstStart(_, _, _)
FirstStart(re, line, p) ==
    IF p > Len(line) + 1 THEN 0
    ELSE IF IsSome(MatchSeq(re.atoms, 1, line, p, [g \in 1..re.ngroups |-> None])) THEN p
    ELSE FirstStart(re, line, p + 1)

\* Regex::is_match
IsMatch(re, line) == FirstStart(re, line, 1) # 0

\* Regex::captures: None, or group zero's byte offsets, the groups, and
\* Captures::len (the groups of the regex, group zero included)
Captures(re, line) ==
    LET p == FirstStart(re, line, 1) IN
    IF p = 0 THEN None
    ELSE LET m == MatchSeq(re.atoms, 1, line, p, [g \in 1..re.ngroups |-> None])[1]
         IN Some([start |-> p - 1, end |-> m.pos - 1, groups |-> m.caps,
                  len |-> re.ngroups + 1])

\* Match::as_str of a group's span
SpanStr(line, span) == SubSeq(line, span[1] + 1, span[2])

-----------------------------------------------------------------------------
(* TodoType and its conversion from a pattern's source text *)

TodoTypes == {"Todo", "Fixme", "Hack", "Note", "Bug"}

W_TODO == <<"T","O","D","O">>
W_FIXME == <<"F","I","X","M","E">>
W_HACK == <<"H","A","C","K">>
W_NOTE == <<"N","O","T","E">>
W_BUG == <<"B","U","G">>

\* a variant of the conversion that tests FIXME before TODO
TodoTypeTryFromFixmeFirst(value) ==
    LET upper == ToUppercase(value) IN
    IF Contains(upper, W_FIXME) THEN Ok("Fixme")
    ELSE IF Contains(upper, W_TODO) THEN Ok("Todo")
    ELSE IF Contains(upper, W_HACK) THEN Ok("Hack")
    ELSE IF Contains(upper, W_NOTE) THEN Ok("Note")
    ELSE IF Contains(upper, W_BUG) THEN Ok("Bug")
    ELSE Err(<<"UnknownTodoType", value>>)

\* impl TryFrom<&str> for TodoType
TodoTypeTryFrom(value) ==
    LET upper == ToUppercase(value) IN
    IF Contains(upper, W_TODO) THEN Ok("Todo")
    ELSE IF Contains(upper, W_FIXME) THEN Ok("Fixme")
    ELSE IF Contains(upper, W_HACK) THEN Ok("Hack")
    ELSE IF Contains(upper, W_NOTE) THEN Ok("Note")
    ELSE IF Contains(upper, W_BUG) THEN Ok("Bug")
    ELSE Err(<<"UnknownTodoType", value>>)

\* impl TryFrom<String> for TodoType
TodoTypeTryFromString(value) ==
    LET upper == ToUppercase(value) IN
    IF Contains(upper, W_TODO) THEN Ok("Todo")
    ELSE IF Contains(upper, W_FIXME) THEN Ok("Fixme")
    ELSE IF Contains(upper, W_HACK) THEN Ok("Hack")
    ELSE IF Contains(upper, W_NOTE) THEN Ok("Note")
    ELSE IF Contains(upper, W_BUG) THEN Ok("Bug")
    ELSE Err(<<"UnknownTodoType", value>>)

-----------------------------------------------------------------------------
(* Pattern source texts of the configurations, and Regex::new on them *)

\* comment prefixes: //   ^\s*#   /\*   ^\s*\*
P_SLASHES == <<"/","/">>
P_HASH == <<"^","\\","s","*","#">>
P_CSTART == <<"/","\\","*">>
P_CSTAR == <<"^","\\","s","*","\\","*">>
\* marker patterns: (?i)\bKW:\s*(.*)
MarkerSrc(kw) == <<"(","?","i",")","\\","b">> \o kw \o <<":","\\","s","*","(",".","*",")">>
P_TODO == MarkerSrc(W_TODO)
P_FIXME == MarkerSrc(W_FIXME)
P_HACK == MarkerSrc(W_HACK)
P_NOTE == MarkerSrc(W_NOTE)
P_BUG == MarkerSrc(W_BUG)
\* TODO      a marker pattern without a capture group
P_BARE == W_TODO
\* TODO(!)?  a marker pattern whose capture group may take no part in a match
P_OPT == W_TODO \o <<"(","!",")","?">>
\* XXX:\s*(.*)   compiles, and names no TodoType
P_XXX == <<"X","X","X",":","\\","s","*","(",".","*",")">>
\* [invalid regex   does not compile (an unclosed character class)
P_INVALID == <<"[","i","n","v","a","l","i","d"," ","r","e","g","e","x">>
\* [TODO   does not compile, and names a TodoType
P_INVALID_TODO == <<"[">> \o W_TODO
\* declaration patterns: ^\s*(pub\s+)?fn\s+(\w+)    ^\s*def\s+(\w+)
P_FN == <<"^","\\","s","*","(","p","u","b","\\","s","+",")","?","f","n","\\","s","+","(","\\","w","+",")">>
P_DEF == <<"^","\\","s","*","d","e","f","\\","s","+","(","\\","w","+",")">>
\* ^\s*impl\s+(.*)   a declaration pattern whose group takes the rest of the line
P_IMPL == <<"^","\\","s","*","i","m","p","l","\\","s","+","(",".","*",")">>

Keywords == {W_TODO, W_FIXME, W_HACK, W_NOTE, W_BUG}

\* Regex::new: the compiled regex of a source text, or the compile error
RegexNew(src) ==
    CASE src = P_SLASHES -> Ok(Regex(<<Lit(<<"/","/">>)>>, 0))
      [] src = P_HASH -> Ok(Regex(<<LineStart, Spaces(0), Lit(<<"#">>)>>, 0))
      [] src = P_CSTART -> Ok(Regex(<<Lit(<<"/","*">>)>>, 0))
      [] src = P_CSTAR -> Ok(Regex(<<LineStart, Spaces(0), Lit(<<"*">>)>>, 0))
      [] \E kw \in Keywords : src = MarkerSrc(kw) ->
            LET kw == CHOOSE k \in Keywords : src = MarkerSrc(k) IN
            Ok(Regex(<<WordBoundary, LitCi(kw \o <<":">>), Spaces(0), AnyGroup(1)>>, 1))
      [] src = P_BARE -> Ok(Regex(<<Lit(W_TODO)>>, 0))
      [] src = P_OPT -> Ok(Regex(<<Lit(W_TODO), OptGroup(1, <<Lit(<<"!">>)>>)>>, 1))
      [] src = P_XXX -> Ok(Regex(<<Lit(<<"X","X","X",":">>), Spaces(0), AnyGroup(1)>>, 1))
      [] src = P_FN ->
            Ok(Regex(<<LineStart, Spaces(0),
                       OptGroup(1, <<Lit(<<"p","u","b">>), Spaces(1)>>),
                       Lit(<<"f","n">>), Spaces(1), WordGroup(2)>>, 2))
      [] src = P_DEF ->
            Ok(Regex(<<LineStart, Spaces(0), Lit(<<"d","e","f">>), Spaces(1), WordGroup(1)>>, 1))
      [] src = P_IMPL ->
            Ok(Regex(<<LineStart, Spaces(0), Lit(<<"i","m","p","l">>), Spaces(1), AnyGroup(1)>>, 1))
      [] OTHER -> Err(<<"regex::Error", src>>)

-----------------------------------------------------------------------------
(* Parser::new *)

\* the loops of Parser::new over comment_prefixes and function_patterns:
\* compile each in order, `?` returns the first error
RECURSIVE CompileAll(_, _)
CompileAll(srcs, acc) ==
    IF srcs = <<>> THEN Ok(acc)
    ELSE LET r == RegexNew(Head(srcs)) IN
         IF ~r.ok THEN Err(<<"InvalidRegexPattern", Head(srcs)>>)
         ELSE CompileAll(Tail(srcs), Append(acc, r.val))

\* the loop of Parser::new over todo_patterns: compile, then bind the type
\* from the pattern's own source text
RECURSIVE CompilePatterns(_, _)
CompilePatterns(srcs, acc) ==
    IF srcs = <<>> THEN Ok(acc)
    ELSE LET r == RegexNew(Head(srcs))
             t == TodoTypeTryFrom(Head(srcs))
         IN IF ~r.ok THEN Err(<<"InvalidRegexPattern", Head(srcs)>>)
            ELSE IF ~t.ok THEN Err(<<"UnknownConfigPattern", Head(srcs)>>)
            ELSE CompilePatterns(Tail(srcs), Append(acc, [regex |-> r.val, todo_type |-> t.val]))

\* a constructor that skips a pattern it cannot use instead of failing
RECURSIVE CompileAllLenient(_, _)
CompileAllLenient(srcs, acc) ==
    IF srcs = <<>> THEN Ok(acc)
    ELSE LET r == RegexNew(Head(srcs)) IN
         CompileAllLenient(Tail(srcs), IF r.ok THEN Append(acc, r.val) ELSE acc)
RECURSIVE CompilePatternsLenient(_, _)
CompilePatternsLenient(srcs, acc) ==
    IF srcs = <<>> THEN Ok(acc)
    ELSE LET r == RegexNew(Head(srcs))
             t == TodoTypeTryFrom(Head(srcs))
         IN CompilePatternsLenient(Tail(srcs),
                IF r.ok /\ t.ok THEN Append(acc, [regex |-> r.val, todo_type |-> t.val])
                ELSE acc)
ParserNewLenient(config) ==
    Ok([comment_patterns |-> CompileAllLenient(config.comment_prefixes, <<>>).val,
        patterns |-> CompilePatternsLenient(config.todo_patterns, <<>>).val,
        function_patterns |-> CompileAllLenient(config.function_patterns, <<>>).val])

ParserNew(config) ==
    LET c == CompileAll(config.comment_prefixes, <<>>) IN
    IF ~c.ok THEN Err(c.err)
    ELSE LET p == CompilePatterns(config.todo_patterns, <<>>) IN
    IF ~p.ok THEN Err(p.err)
    ELSE LET f == CompileAll(config.function_patterns, <<>>) IN
    IF ~f.ok THEN Err(f.err)
    ELSE Ok([comment_patterns |-> c.val, patterns |-> p.val, function_patterns |-> f.val])

\* Scanner::new: the parser's error wrapped as ParsingError, else the scanner
ScannerNew(config) ==
    LET r == ParserNew(config) IN
    IF ~r.ok THEN Err(<<"ParsingError", r.err>>)
    ELSE Ok([parser |-> r.val, config |-> config])

-----------------------------------------------------------------------------
(* Parser::parse and its helpers *)

NoDescription == <<"N","o"," ","d","e","s","c","r","i","p","t","i","o","n">>

\* the fixed context window extract_todo passes to extract_context
ContextSize == 3

\* Path::file_name: the last component, none when the path ends in ".."
FileName(path) ==
    LET slashes == {i \in DOMAIN path : path[i] = "/"}
        last == IF slashes = {} THEN 0 ELSE CHOOSE i \in slashes : \A j \in slashes : j <= i
        name == SubSeq(path, last + 1, Len(path))
    IN IF name = <<".",".">> \/ name = <<>> THEN None ELSE Some(name)

\* Path::extension: the file name after its last ".", none when the name has
\* no "." or only a leading one
Extension(path) ==
    LET fname == FileName(path) IN
    IF ~IsSome(fname) THEN None
    ELSE LET n == Unwrap(fname)
             dots == {i \in DOMAIN n : n[i] = "."}
             last == IF dots = {} THEN 0 ELSE CHOOSE i \in dots : \A j \in dots : j <= i
         IN IF last <= 1 THEN None ELSE Some(SubSeq(n, last + 1, Len(n)))

\* extract_context with a window that includes the current line
ExtractContextInclusive(lns, current_line, context_size) ==
    LET start == IF current_line >= context_size THEN current_line - context_size ELSE 0
        end == IF current_line + context_size + 1 < Len(lns)
               THEN current_line + context_size + 1 ELSE Len(lns)
    IN [k \in 1..(end - start) |->
            ToDigits(start + k) \o <<":", " ">> \o lns[start + k]]

\* Parser::extract_context; current_line is zero-based, and line i of the
\* code is lines[i + 1] here
ExtractContext(lns, current_line, context_size) ==
    LET start == IF current_line >= context_size THEN current_line - context_size ELSE 0
        end == IF current_line + context_size + 1 < Len(lns)
               THEN current_line + context_size + 1 ELSE Len(lns)
        idx == SelectSeq([k \in 1..(end - start) |-> start + k - 1],
                         LAMBDA i : i # current_line)
    IN [k \in DOMAIN idx |-> ToDigits(idx[k] + 1) \o <<":", " ">> \o lns[idx[k] + 1]]

\* the loop over the groups 1.. of a declaration match: the first that took
\* part, is not empty and is made of alphanumerics and "_"
RECURSIVE FirstName(_, _, _)
FirstName(line, caps, j) ==
    IF j >= caps.len THEN None
    ELSE LET grp == caps.groups[j] IN
         IF /\ IsSome(grp)
            /\ SpanStr(line, Unwrap(grp)) # <<>>
            /\ \A c \in Range(SpanStr(line, Unwrap(grp))) : IsAlphanumeric(c) \/ c = "_"
         THEN Some(SpanStr(line, Unwrap(grp)))
         ELSE FirstName(line, caps, j + 1)

\* the loop over the declaration patterns on one line
RECURSIVE NameOnLine(_, _, _)
NameOnLine(patterns, line, k) ==
    IF k > Len(patterns) THEN None
    ELSE LET caps == Captures(patterns[k], line)
             name == IF IsSome(caps) THEN FirstName(line, Unwrap(caps), 1) ELSE None
         IN IF IsSome(name) THEN name ELSE NameOnLine(patterns, line, k + 1)

\* a search that runs from line 0 upwards and returns the first declaration
FindFunctionContextEarliest(p, lns, i) ==
    LET S == {k \in 0..i : IsSome(NameOnLine(p.function_patterns, lns[k + 1], 1))} IN
    IF S = {} THEN None
    ELSE LET k == CHOOSE x \in S : \A y \in S : x <= y IN
         Some(Unwrap(NameOnLine(p.function_patterns, lns[k + 1], 1)) \o <<":">> \o ToDigits(k + 1))

\* a search that starts at the last line of the content
FindFunctionContextWholeFile(p, lns, i) ==
    LET S == {k \in 0..(Len(lns) - 1) : IsSome(NameOnLine(p.function_patterns, lns[k + 1], 1))} IN
    IF S = {} THEN None
    ELSE LET k == CHOOSE x \in S : \A y \in S : x >= y IN
         Some(Unwrap(NameOnLine(p.function_patterns, lns[k + 1], 1)) \o <<":">> \o ToDigits(k + 1))

\* Parser::find_function_context: lines current_line down to 0
RECURSIVE FindFunctionContext(_, _, _)
FindFunctionContext(p, lns, i) ==
    IF i < 0 THEN None
    ELSE LET name == NameOnLine(p.function_patterns, lns[i + 1], 1) IN
         IF IsSome(name) THEN Some(Unwrap(name) \o <<":">> \o ToDigits(i + 1))
         ELSE FindFunctionContext(p, lns, i - 1)

\* the description as the documented chain: the trimmed first group unless
\* empty, else the trimmed whole match unless empty, else the placeholder
DescriptionChain(line, caps) ==
    LET first == IF caps.len > 1 /\ IsSome(caps.groups[1])
                 THEN Trim(SpanStr(line, Unwrap(caps.groups[1]))) ELSE <<>>
        whole == Trim(SubSeq(line, caps.start + 1, caps.end))
    IN IF first # <<>> THEN first
       ELSE IF whole # <<>> THEN whole
       ELSE NoDescription

\* the `description` of extract_todo: group 1 when the regex has one, group
\* zero otherwise, trimmed; the placeholder when that group took no part
Description(line, caps) ==
    IF caps.len > 1
    THEN (IF IsSome(caps.groups[1]) THEN Trim(SpanStr(line, Unwrap(caps.groups[1])))
          ELSE NoDescription)
    ELSE Trim(SubSeq(line, caps.start + 1, caps.end))

\* extract_todo with columns counted from 1, as line numbers are
ExtractTodoOneBasedColumns(p, path, line, line_number, caps, all_lines, todo_type) ==
    [id |-> (IF IsSome(FileName(path)) THEN Unwrap(FileName(path)) ELSE <<>>)
            \o <<"_","L">> \o ToDigits(line_number) \o <<"_","C">> \o ToDigits(caps.start),
     file_path |-> path,
     line_number |-> line_number,
     column_start |-> caps.start + 1,
     column_end |-> caps.end + 1,
     todo_type |-> todo_type,
     original_text |-> line,
     description |-> Description(line, caps),
     context_lines |-> ExtractContext(all_lines, line_number - 1, ContextSize),
     function_context |-> FindFunctionContext(p, all_lines, line_number - 1)]

\* extract_todo with the type taken from the keyword the line holds
ExtractTodoTypeFromLine(p, path, line, line_number, caps, all_lines, todo_type) ==
    [id |-> (IF IsSome(FileName(path)) THEN Unwrap(FileName(path)) ELSE <<>>)
            \o <<"_","L">> \o ToDigits(line_number) \o <<"_","C">> \o ToDigits(caps.start),
     file_path |-> path,
     line_number |-> line_number,
     column_start |-> caps.start,
     column_end |-> caps.end,
     todo_type |-> TodoTypeTryFrom(line).val,
     original_text |-> line,
     description |-> Description(line, caps),
     context_lines |-> ExtractContext(all_lines, line_number - 1, ContextSize),
     function_context |-> FindFunctionContext(p, all_lines, line_number - 1)]

\* Parser::extract_todo
ExtractTodo(p, path, line, line_number, caps, all_lines, todo_type) ==
    [id |-> (IF IsSome(FileName(path)) THEN Unwrap(FileName(path)) ELSE <<>>)
            \o <<"_","L">> \o ToDigits(line_number) \o <<"_","C">> \o ToDigits(caps.start),
     file_path |-> path,
     line_number |-> line_number,
     column_start |-> caps.start,
     column_end |-> caps.end,
     todo_type |-> todo_type,
     original_text |-> line,
     description |-> Description(line, caps),
     context_lines |-> ExtractContext(all_lines, line_number - 1, ContextSize),
     function_context |-> FindFunctionContext(p, all_lines, line_number - 1)]

\* whether any comment-prefix pattern matches the line
IsComment(p, line) == \E k \in DOMAIN p.comment_patterns : IsMatch(p.comment_patterns[k], line)

\* a line pass that stops at the first marker pattern that matches
RECURSIVE LineTodosFirstMatch(_, _, _, _, _)
LineTodosFirstMatch(p, path, lns, idx, k) ==
    IF k > Len(p.patterns) THEN <<>>
    ELSE LET caps == Captures(p.patterns[k].regex, lns[idx + 1]) IN
         IF IsSome(caps)
         THEN <<ExtractTodo(p, path, lns[idx + 1], idx + 1, Unwrap(caps), lns,
                            p.patterns[k].todo_type)>>
         ELSE LineTodosFirstMatch(p, path, lns, idx, k + 1)

\* a line pass that puts each new record before those of the line so far
RECURSIVE LineTodosNewestFirst(_, _, _, _, _)
LineTodosNewestFirst(p, path, lns, idx, k) ==
    IF k > Len(p.patterns) THEN <<>>
    ELSE LET caps == Captures(p.patterns[k].regex, lns[idx + 1]) IN
         LineTodosNewestFirst(p, path, lns, idx, k + 1)
         \o (IF IsSome(caps)
             THEN <<ExtractTodo(p, path, lns[idx + 1], idx + 1, Unwrap(caps), lns,
                                p.patterns[k].todo_type)>>
             ELSE <<>>)

\* the inner loop of parse: one record per marker pattern that matches, in order
RECURSIVE LineTodos(_, _, _, _, _)
LineTodos(p, path, lns, idx, k) ==
    IF k > Len(p.patterns) THEN <<>>
    ELSE LET caps == Captures(p.patterns[k].regex, lns[idx + 1]) IN
         (IF IsSome(caps)
          THEN <<ExtractTodo(p, path, lns[idx + 1], idx + 1, Unwrap(caps), lns,
                             p.patterns[k].todo_type)>>
          ELSE <<>>)
         \o LineTodos(p, path, lns, idx, k + 1)

\* a line pass that does not test the comment prefixes
ParseLineNoPrefix(p, path, lns, idx) == LineTodos(p, path, lns, idx, 1)

\* one iteration of the outer loop of parse, for zero-based line idx
ParseLine(p, path, lns, idx) ==
    IF ~IsComment(p, lns[idx + 1]) THEN <<>>
    ELSE LineTodos(p, path, lns, idx, 1)

\* Parser::parse: the records of every line, in line order
RECURSIVE ParseFrom(_, _, _, _)
ParseFrom(p, path, lns, idx) ==
    IF idx >= Len(lns) THEN <<>>
    ELSE ParseLine(p, path, lns, idx) \o ParseFrom(p, path, lns, idx + 1)
Parse(p, path, text) == Ok(ParseFrom(p, path, StrLines(text), 0))

-----------------------------------------------------------------------------
(* Inputs: lines, contents and configurations *)

\* // TODO: Fix this bug
L_TODO_FIX == <<"/","/"," ","T","O","D","O",":"," ","F","i","x"," ","t","h","i","s"," ","b","u","g">>
\* let todo = "TODO: x";
L_STRING == <<"l","e","t"," ","t","o","d","o"," ","="," ","\"","T","O","D","O",":"," ","x","\"",";">>
\* TODO: Not in a comment
L_BARE == <<"T","O","D","O",":"," ","N","o","t"," ","i","n"," ","a"," ","c","o","m","m","e","n","t">>
\* // TODO: a FIXME: b
L_TWO == <<"/","/"," ","T","O","D","O",":"," ","a"," ","F","I","X","M","E",":"," ","b">>
\* // TODO:  
L_NO_DESC == <<"/","/"," ","T","O","D","O",":"," "," ">>
\* // TODO!
L_BANG == <<"/","/"," ","T","O","D","O","!">>
\* pub fn f() {
L_FN == <<"p","u","b"," ","f","n"," ","f","(",")"," ","{">>
\*   # note: y
L_HASH == <<" "," ","#"," ","n","o","t","e",":"," ","y">>
\* x
L_CODE == <<"x">>
\* //TODO: a
L_MARK == <<"/","/","T","O","D","O",":"," ","a">>

\* the lines contents are made of
LineSet == {L_TODO_FIX, L_STRING, L_BARE, L_TWO, L_NO_DESC, L_BANG, L_FN, L_HASH, L_CODE}
\* the lines long contents are made of
LongLineSet == {L_MARK, L_CODE}

SeqsUpTo(S, n) == UNION {[1..k -> S] : k \in 0..n}

\* contents as sequences of lines, before they are joined with "\n"
ContentLines ==
    SeqsUpTo(LineSet, MaxLines)
    \cup {ls \in SeqsUpTo(LongLineSet, MaxLong) :
            Cardinality({i \in DOMAIN ls : ls[i] = L_MARK}) <= MaxMarks}

\* the text of a content: its lines joined, with or without a final newline
Text(ls, finalNewline) == Join(ls, <<"\n">>) \o (IF finalNewline THEN <<"\n">> ELSE <<>>)

\* create_test_config of the parser's tests
TestConfig ==
    [file_extensions |-> <<<<"r","s">>, <<"p","y">>>>,
     exclude_patterns |-> <<>>,
     include_context_lines |-> 3,
     comment_prefixes |-> <<P_SLASHES, P_HASH, P_CSTART, P_CSTAR>>,
     todo_patterns |-> <<P_TODO, P_FIXME, P_HACK, P_NOTE, P_BUG>>,
     function_patterns |-> <<P_FN, P_DEF>>]
\* a configuration with other marker patterns and another context-line count
CustomConfig ==
    [file_extensions |-> <<<<"r","s">>>>,
     exclude_patterns |-> <<>>,
     include_context_lines |-> 1,
     comment_prefixes |-> <<P_SLASHES>>,
     todo_patterns |-> <<P_BARE, P_OPT, P_FIXME>>,
     function_patterns |-> <<P_FN>>]
ValidConfigs == {TestConfig, CustomConfig}

\* the path the parser's tests pass to parse
TestPath == <<"t","e","s","t",".","r","s">>

-----------------------------------------------------------------------------
(* Specification SpecParse: Parser::parse, one line per step *)

\* values of the variables a specification does not use
IdleParse ==
    /\ parser = <<>> /\ cfgContext = 0 /\ content = <<>> /\ lines = <<>>
    /\ line_idx = 0 /\ todos = <<>> /\ parsePc = "idle"
IdleNew == newConfig = <<>> /\ newResult = <<>>
IdleOut == outFormat = "-" /\ outPath = <<>> /\ outResult = <<>>
IdleRun == run = <<>>
IdleCall == call = <<>>

InitParse ==
    /\ \E cfg \in ValidConfigs :
          /\ parser = ParserNew(cfg).val
          /\ cfgContext = cfg.include_context_lines
    /\ \E ls \in ContentLines, nl \in BOOLEAN : content = Text(ls, nl)
    /\ lines = StrLines(content)
    /\ line_idx = 0
    /\ todos = <<>>
    /\ parsePc = "loop"
    /\ IdleNew /\ IdleOut /\ IdleRun /\ IdleCall

\* one iteration of `for (line_idx, line) in lines.iter().enumerate()`
ParseStep ==
    /\ parsePc = "loop"
    /\ line_idx < Len(lines)
    /\ todos' = todos \o ParseLine(parser, TestPath, lines, line_idx)
    /\ line_idx' = line_idx + 1
    /\ UNCHANGED <<parser, cfgContext, content, lines, parsePc, newVars, outVars, run, call>>

\* Ok(todos)
ParseReturn ==
    /\ parsePc = "loop"
    /\ line_idx = Len(lines)
    /\ parsePc' = "done"
    /\ UNCHANGED <<parser, cfgContext, content, lines, line_idx, todos, newVars, outVars, run, call>>

NextParse == ParseStep \/ ParseReturn
SpecParse == InitParse /\ [][NextParse]_vars

-----------------------------------------------------------------------------
(* Properties of Parser::parse, checked under SpecParse *)

\* the records collected so far for the zero-based line i
RecordsOfLine(i) == SelectSeq(todos, LAMBDA r : r.line_number = i + 1)

\* the indices of the marker patterns that match a line, ascending
MatchingPatterns(line) ==
    SelectSeq([k \in DOMAIN parser.patterns |-> k],
              LAMBDA k : IsMatch(parser.patterns[k].regex, line))

MatchesNoPrefix(line) ==
    \A k \in DOMAIN parser.comment_patterns : ~IsMatch(parser.comment_patterns[k], line)

RECURSIVE ExpectedCount(_)
ExpectedCount(n) ==
    IF n = 0 THEN 0
    ELSE ExpectedCount(n - 1)
         + (IF MatchesNoPrefix(lines[n]) THEN 0 ELSE Len(MatchingPatterns(lines[n])))

\* C3: a line that matches none of the comment-prefix patterns yields no
\* record, whichever marker patterns match it.
C3_NoPrefixNoRecord ==
    parsePc = "done" =>
      \A i \in 0..(line_idx - 1) :
          MatchesNoPrefix(lines[i + 1]) => RecordsOfLine(i) = <<>>

\* the parse is over, a line without a comment prefix carried a marker and
\* produced nothing, and another line produced a record
C3_Witness ==
    /\ parsePc = "done"
    /\ todos # <<>>
    /\ \E i \in 0..(line_idx - 1) :
          /\ MatchesNoPrefix(lines[i + 1])
          /\ MatchingPatterns(lines[i + 1]) # <<>>
          /\ RecordsOfLine(i) = <<>>

\* C4: a line that matches a comment prefix and exactly N marker patterns
\* yields exactly N records, one per matching pattern in configured order;
\* the records of a content number the sum of these N over its comment lines.
C4_OneRecordPerMatchingPattern ==
    parsePc = "done" =>
        /\ \A i \in 0..(line_idx - 1) :
              ~MatchesNoPrefix(lines[i + 1]) =>
                 LET ms == MatchingPatterns(lines[i + 1])
                     rs == RecordsOfLine(i)
                 IN /\ Len(rs) = Len(ms)
                    /\ \A j \in DOMAIN ms :
                          LET caps == Unwrap(Captures(parser.patterns[ms[j]].regex, lines[i + 1]))
                          IN /\ rs[j].todo_type = parser.patterns[ms[j]].todo_type
                             /\ rs[j].column_start = caps.start
                             /\ rs[j].column_end = caps.end
        /\ Len(todos) = ExpectedCount(line_idx)

\* a comment line matched by two or more marker patterns has been classified
C4_Witness ==
    /\ parsePc = "done"
    /\ \E i \in 0..(line_idx - 1) :
          /\ ~MatchesNoPrefix(lines[i + 1])
          /\ Len(MatchingPatterns(lines[i + 1])) >= 2
          /\ Len(RecordsOfLine(i)) = Len(MatchingPatterns(lines[i + 1]))

\* C9: the description of every record is the trimmed first capture group
\* when that is not empty, else the trimmed whole match, and the placeholder
\* exactly when both are empty after trimming.
C9_DescriptionIsChain ==
    parsePc = "done" =>
      \A i \in 0..(line_idx - 1) :
          ~MatchesNoPrefix(lines[i + 1]) =>
             LET ms == MatchingPatterns(lines[i + 1])
                 rs == RecordsOfLine(i)
             IN \A j \in DOMAIN ms :
                   rs[j].description =
                      DescriptionChain(lines[i + 1],
                          Unwrap(Captures(parser.patterns[ms[j]].regex, lines[i + 1])))

RECURSIVE Ascending(_)
Ascending(S) ==
    IF S = {} THEN <<>>
    ELSE LET m == CHOOSE x \in S : \A y \in S : x <= y
         IN <<m>> \o Ascending(S \ {m})

\* the neighbours of zero-based line c within three lines, inside the content
Neighbours(c, n) == {i \in 0..(n - 1) : i # c /\ i >= c - 3 /\ i <= c + 3}

\* C10: the context_lines of a record at zero-based line c are the lines
\* i in [max(0, c-3), min(n-1, c+3)], i # c, ascending, each "<i+1>: <line>",
\* whatever include_context_lines is configured.
C10_ContextWindow ==
    parsePc = "done" =>
      \A j \in DOMAIN todos :
          LET c == todos[j].line_number - 1
              idx == Ascending(Neighbours(c, Len(lines)))
          IN todos[j].context_lines =
                [k \in DOMAIN idx |-> ToDigits(idx[k] + 1) \o <<":", " ">> \o lines[idx[k] + 1]]

\* a record whose window is cut by the window size on both sides, not by
\* the ends of the content, under a configured count other than three
C10_Witness ==
    /\ parsePc = "done"
    /\ cfgContext # 3
    /\ \E j \in DOMAIN todos :
          /\ todos[j].line_number - 1 >= 4
          /\ todos[j].line_number - 1 + 3 < Len(lines) - 1
          /\ Len(todos[j].context_lines) = 6

-----------------------------------------------------------------------------
(* Specification SpecNew: Parser::new and Scanner::new on a configuration *)

CommentSources == {P_SLASHES, P_INVALID}
MarkerSources == {P_TODO, P_BARE, P_XXX, P_INVALID_TODO}
DeclarationSources == {P_FN, P_INVALID}

InitNew ==
    /\ \E c \in SeqsUpTo(CommentSources, MaxPatterns),
          m \in SeqsUpTo(MarkerSources, MaxPatterns),
          d \in SeqsUpTo(DeclarationSources, MaxPatterns) :
          newConfig = [TestConfig EXCEPT !.comment_prefixes = c,
                                         !.todo_patterns = m,
                                         !.function_patterns = d]
    /\ newResult = <<>>
    /\ IdleParse /\ IdleOut /\ IdleRun /\ IdleCall

\* Parser::new(&config)
CallParserNew ==
    /\ newResult = <<>>
    /\ newResult' = <<[fn |-> "Parser::new", res |-> ParserNew(newConfig)]>>
    /\ UNCHANGED <<newConfig, parseVars, outVars, run, call>>

\* Scanner::new(config)
CallScannerNew ==
    /\ newResult = <<>>
    /\ newResult' = <<[fn |-> "Scanner::new", res |-> ScannerNew(newConfig)]>>
    /\ UNCHANGED <<newConfig, parseVars, outVars, run, call>>

NextNew == CallParserNew \/ CallScannerNew
SpecNew == InitNew /\ [][NextNew]_vars

\* a source text compiles as a regex
Compiles(src) == RegexNew(src).ok
\* a source text holds one of the five keywords, whatever the case
NamesKeyword(src) == \E kw \in Keywords : Contains(ToUppercase(src), kw)
\* every pattern of the three families of a configuration is usable
AllPatternsValid(cfg) ==
    /\ \A i \in DOMAIN cfg.comment_prefixes : Compiles(cfg.comment_prefixes[i])
    /\ \A i \in DOMAIN cfg.todo_patterns :
          Compiles(cfg.todo_patterns[i]) /\ NamesKeyword(cfg.todo_patterns[i])
    /\ \A i \in DOMAIN cfg.function_patterns : Compiles(cfg.function_patterns[i])

\* the Parser inside the value a constructor returned
BuiltParser(r) == IF r.fn = "Parser::new" THEN r.res.val ELSE r.res.val.parser

\* C7: Parser::new and Scanner::new return Ok exactly when every pattern of
\* the three families compiles and every marker pattern names a keyword;
\* otherwise they return an error and no instance, and an instance holds one
\* compiled pattern per configured pattern.
C7_ConstructionFailsFast ==
    newResult # <<>> =>
       LET r == newResult[1] IN
       /\ r.res.ok <=> AllPatternsValid(newConfig)
       /\ ~r.res.ok => r.res.val = <<>>
       /\ r.res.ok =>
            /\ Len(BuiltParser(r).comment_patterns) = Len(newConfig.comment_prefixes)
            /\ Len(BuiltParser(r).patterns) = Len(newConfig.todo_patterns)
            /\ Len(BuiltParser(r).function_patterns) = Len(newConfig.function_patterns)

\* a constructor refused a configuration whose first marker pattern is
\* usable and whose later one is not
C7_Witness ==
    /\ newResult # <<>>
    /\ ~newResult[1].res.ok
    /\ Len(newConfig.todo_patterns) >= 2
    /\ Compiles(newConfig.todo_patterns[1]) /\ NamesKeyword(newConfig.todo_patterns[1])
    /\ \A i \in DOMAIN newConfig.comment_prefixes : Compiles(newConfig.comment_prefixes[i])

-----------------------------------------------------------------------------
(* Output::new *)

OutputFormats == {"Terminal", "Table", "Json", "Csv", "Toml", "Markdown"}

EXT_JSON == <<"j","s","o","n">>
EXT_CSV == <<"c","s","v">>
EXT_TOML == <<"t","o","m","l">>
EXT_MD == <<"m","d">>

\* a check of the extension that ignores the case of the letters
ValidateFileExtensionAnyCase(path, expected_ext) ==
    IF IsSome(Extension(path))
    THEN (IF ToUppercase(Unwrap(Extension(path))) = ToUppercase(expected_ext) THEN Ok(<<>>)
          ELSE Err(<<"InvalidOutputPath", "extension does not match">>))
    ELSE Err(<<"InvalidOutputPath", "must have extension">>)

\* Output::validate_file_extension
ValidateFileExtension(path, expected_ext) ==
    IF IsSome(Extension(path))
    THEN (IF Unwrap(Extension(path)) = expected_ext THEN Ok(<<>>)
          ELSE Err(<<"InvalidOutputPath", "extension does not match">>))
    ELSE Err(<<"InvalidOutputPath", "must have extension">>)

StdoutWriter == [kind |-> "Stdout", path |-> <<>>]
FileWriter(path) == [kind |-> "File", path |-> path]

\* the arms of Output::new for the formats written to a file
FileOutput(formatter, output_path, expected_ext) ==
    IF ~IsSome(output_path)
    THEN Err(<<"InvalidOutputPath", "requires an output file path">>)
    ELSE LET v == ValidateFileExtension(Unwrap(output_path), expected_ext) IN
         IF ~v.ok THEN Err(v.err)
         ELSE Ok([formatter |-> formatter, writer |-> FileWriter(Unwrap(output_path))])

\* the arms of Output::new for the formats printed to the console
ConsoleOutput(formatter, output_path) ==
    IF IsSome(output_path)
    THEN Err(<<"InvalidOutputPath", "cannot write to file">>)
    ELSE Ok([formatter |-> formatter, writer |-> StdoutWriter])

\* Output::new
OutputNew(output_format, output_path) ==
    CASE output_format = "Terminal" -> ConsoleOutput("MarkdownFormatter", output_path)
      [] output_format = "Table" -> ConsoleOutput("TableFormatter", output_path)
      [] output_format = "Json" -> FileOutput("JsonFormatter", output_path, EXT_JSON)
      [] output_format = "Csv" -> FileOutput("CsvFormatter", output_path, EXT_CSV)
      [] output_format = "Toml" -> FileOutput("TomlFormatter", output_path, EXT_TOML)
      [] output_format = "Markdown" -> FileOutput("MarkdownFormatter", output_path, EXT_MD)

-----------------------------------------------------------------------------
(* Specification SpecOutput: Output::new on a format and an optional path *)

\* out.json
O_JSON == <<"o","u","t",".","j","s","o","n">>
\* out.JSON
O_JSON_UPPER == <<"o","u","t",".","J","S","O","N">>
\* out
O_NOEXT == <<"o","u","t">>
\* .json
O_HIDDEN == <<".","j","s","o","n">>
\* out.csv
O_CSV == <<"o","u","t",".","c","s","v">>
\* out.toml
O_TOML == <<"o","u","t",".","t","o","m","l">>
\* dir/out.md
O_MD == <<"d","i","r","/","o","u","t",".","m","d">>
\* a.json/out
O_DOTTED_DIR == <<"a",".","j","s","o","n","/","o","u","t">>
\* out.json.txt
O_TXT == <<"o","u","t",".","j","s","o","n",".","t","x","t">>

OutputPaths == {O_JSON, O_JSON_UPPER, O_NOEXT, O_HIDDEN, O_CSV, O_TOML, O_MD,
                O_DOTTED_DIR, O_TXT}

InitOutput ==
    /\ outFormat \in OutputFormats
    /\ outPath \in {None} \cup {Some(p) : p \in OutputPaths}
    /\ outResult = <<>>
    /\ IdleParse /\ IdleNew /\ IdleRun /\ IdleCall

\* Output::new(format, output)
CallOutputNew ==
    /\ outResult = <<>>
    /\ outResult' = <<OutputNew(outFormat, outPath)>>
    /\ UNCHANGED <<outFormat, outPath, parseVars, newVars, run, call>>

NextOutput == CallOutputNew
SpecOutput == InitOutput /\ [][NextOutput]_vars

\* the suffix a format written to a file expects
ExpectedSuffix(format) ==
    CASE format = "Json" -> <<"j","s","o","n">>
      [] format = "Csv" -> <<"c","s","v">>
      [] format = "Toml" -> <<"t","o","m","l">>
      [] format = "Markdown" -> <<"m","d">>

\* the pairing of a format with a path that the format/sink rule allows
PairingAllowed(format, path) ==
    IF format \in {"Terminal", "Table"} THEN path = None
    ELSE /\ IsSome(path)
         /\ Extension(Unwrap(path)) = Some(ExpectedSuffix(format))

\* C6: Output::new succeeds exactly when the format is a console format
\* without a path, or a file format with a path whose extension is, case
\* included, the format's suffix; every other request is rejected with
\* InvalidOutputPath, and the sink of an accepted request is the one asked for.
C6_FormatSinkPairing ==
    outResult # <<>> =>
       LET r == outResult[1] IN
       /\ r.ok <=> PairingAllowed(outFormat, outPath)
       /\ ~r.ok => r.err[1] = "InvalidOutputPath" /\ r.val = <<>>
       /\ r.ok => r.val.writer = (IF outFormat \in {"Terminal", "Table"} THEN StdoutWriter
                                  ELSE FileWriter(Unwrap(outPath)))

\* the JSON format was asked for with a path ending in .JSON, and refused
C6_Witness ==
    /\ outResult # <<>>
    /\ outFormat = "Json"
    /\ outPath = Some(O_JSON_UPPER)
    /\ ~outResult[1].ok

-----------------------------------------------------------------------------
(* Scanner *)

DotDot == <<".", ".">>

\* the path of an entry as the walker yields it: the root joined with its name
EntryPath(root, e) == root \o <<"/">> \o e.name

\* an eligibility check that compares extensions without regard to case
ShouldFileBeScannedAnyCase(sc, path, e) ==
    IF ~e.is_file THEN FALSE
    ELSE IF Contains(path, DotDot) THEN FALSE
    ELSE IF IsSome(Extension(path))
         THEN \E i \in DOMAIN sc.config.file_extensions :
                 ToUppercase(sc.config.file_extensions[i]) = ToUppercase(Unwrap(Extension(path)))
         ELSE FALSE

\* an eligibility check without the test for ".."
ShouldFileBeScannedNoDotDot(sc, path, e) ==
    IF ~e.is_file THEN FALSE
    ELSE IF IsSome(Extension(path))
         THEN \E i \in DOMAIN sc.config.file_extensions :
                 sc.config.file_extensions[i] = Unwrap(Extension(path))
         ELSE FALSE

\* an eligibility check that looks for ".." in the file name only
ShouldFileBeScannedNameOnly(sc, path, e) ==
    IF ~e.is_file THEN FALSE
    ELSE IF IsSome(FileName(path)) /\ Contains(Unwrap(FileName(path)), DotDot) THEN FALSE
    ELSE IF IsSome(Extension(path))
         THEN \E i \in DOMAIN sc.config.file_extensions :
                 sc.config.file_extensions[i] = Unwrap(Extension(path))
         ELSE FALSE

\* Scanner::should_file_be_scanned
ShouldFileBeScanned(sc, path, e) ==
    IF ~e.is_file THEN FALSE
    ELSE IF Contains(path, DotDot) THEN FALSE
    ELSE IF IsSome(Extension(path))
         THEN \E i \in DOMAIN sc.config.file_extensions :
                 sc.config.file_extensions[i] = Unwrap(Extension(path))
         ELSE FALSE

\* a scan_file that reads the file before it looks at the canonical path
ScanFileReadFirst(sc, path, e) ==
    IF ~IsSome(e.canonical)
    THEN [result |-> Err(<<"InvalidPath", path>>), read |-> TRUE]
    ELSE IF Contains(Unwrap(e.canonical), DotDot)
    THEN [result |-> Err(<<"PathTraversalAttempt", path>>), read |-> TRUE]
    ELSE IF ~e.readable
    THEN [result |-> Err(<<"UnableToReadFileAtPath", path>>), read |-> TRUE]
    ELSE [result |-> Parse(sc.parser, path, e.content), read |-> TRUE]

\* Scanner::scan_file: the result, and whether read_to_string was called
ScanFile(sc, path, e) ==
    IF ~IsSome(e.canonical)
    THEN [result |-> Err(<<"InvalidPath", path>>), read |-> FALSE]
    ELSE IF Contains(Unwrap(e.canonical), DotDot)
    THEN [result |-> Err(<<"PathTraversalAttempt", path>>), read |-> FALSE]
    ELSE IF ~e.readable
    THEN [result |-> Err(<<"UnableToReadFileAtPath", path>>), read |-> TRUE]
    ELSE [result |-> Parse(sc.parser, path, e.content), read |-> TRUE]

\* the state of the loop of Scanner::scan before its first iteration
ScanStart ==
    [todos |-> <<>>,        \* the `todos` vector
     examined |-> 0,        \* entries taken from the walker
     calls |-> <<>>,        \* paths handed to scan_file, in order
     reads |-> <<>>,        \* paths handed to read_to_string, in order
     logged |-> 0,          \* per-file errors logged
     errors |-> <<>>,       \* the errors logged, in order
     returned |-> None]     \* the Result scan returned, once it has

\* an iteration that returns the error of a file instead of logging it
ScanIterationAbortOnFileError(sc, root, st, e) ==
    LET path == EntryPath(root, e) IN
    IF ~e.walk_ok
    THEN [st EXCEPT !.examined = @ + 1, !.returned = Some(Err(<<"UnableToWalkFile">>))]
    ELSE IF ~ShouldFileBeScanned(sc, path, e)
    THEN [st EXCEPT !.examined = @ + 1]
    ELSE LET r == ScanFile(sc, path, e) IN
         [st EXCEPT !.examined = @ + 1,
                    !.calls = Append(@, path),
                    !.reads = IF r.read THEN Append(@, path) ELSE @,
                    !.todos = IF r.result.ok THEN @ \o r.result.val ELSE @,
                    !.returned = IF r.result.ok THEN @ ELSE Some(Err(r.result.err))]

\* an iteration that logs the error of the walker and goes on
ScanIterationSkipWalkError(sc, root, st, e) ==
    LET path == EntryPath(root, e) IN
    IF ~e.walk_ok
    THEN [st EXCEPT !.examined = @ + 1, !.logged = @ + 1]
    ELSE IF ~ShouldFileBeScanned(sc, path, e)
    THEN [st EXCEPT !.examined = @ + 1]
    ELSE LET Iterated(r) ==
                 [st EXCEPT !.examined = @ + 1,
                            !.calls = Append(@, path),
                            !.reads = IF r.read THEN Append(@, path) ELSE @,
                            !.todos = IF r.result.ok THEN @ \o r.result.val ELSE @,
                            !.logged = IF r.result.ok THEN @ ELSE @ + 1,
                            !.errors = IF r.result.ok THEN @ ELSE Append(@, r.result.err)]
         \* scan_file is called once, and its result is used here
         IN CHOOSE next \in {Iterated(r) : r \in {ScanFile(sc, path, e)}} : TRUE

\* one iteration of `for walk in file_walker` in Scanner::scan
ScanIteration(sc, root, st, e) ==
    LET path == EntryPath(root, e) IN
    IF ~e.walk_ok
    THEN [st EXCEPT !.examined = @ + 1, !.returned = Some(Err(<<"UnableToWalkFile">>))]
    ELSE IF ~ShouldFileBeScanned(sc, path, e)
    THEN [st EXCEPT !.examined = @ + 1]
    ELSE LET Iterated(r) ==
                 [st EXCEPT !.examined = @ + 1,
                            !.calls = Append(@, path),
                            !.reads = IF r.read THEN Append(@, path) ELSE @,
                            !.todos = IF r.result.ok THEN @ \o r.result.val ELSE @,
                            !.logged = IF r.result.ok THEN @ ELSE @ + 1,
                            !.errors = IF r.result.ok THEN @ ELSE Append(@, r.result.err)]
         \* scan_file is called once, and its result is used here
         IN CHOOSE next \in {Iterated(r) : r \in {ScanFile(sc, path, e)}} : TRUE

-----------------------------------------------------------------------------
(* Inputs of a scan: the entries the walker yields *)

\* Path::canonicalize of an entry that resolves inside the tree
Canonical(name) == <<"/","w","/">> \o name

\* a.rs, one marker
E_A ==
    [walk_ok |-> TRUE, name |-> <<"a",".","r","s">>, is_file |-> TRUE,
     canonical |-> Some(Canonical(<<"a",".","r","s">>)),
     readable |-> TRUE, content |-> <<"/","/","T","O","D","O",":"," ","a">>]
\* b.py, a marker on its second line
E_B ==
    [walk_ok |-> TRUE, name |-> <<"b",".","p","y">>, is_file |-> TRUE,
     canonical |-> Some(Canonical(<<"b",".","p","y">>)),
     readable |-> TRUE, content |-> <<"x","\n","#"," ","F","I","X","M","E",":"," ","b","\n">>]
\* bin.rs, not valid UTF-8: read_to_string fails
E_BIN ==
    [walk_ok |-> TRUE, name |-> <<"b","i","n",".","r","s">>, is_file |-> TRUE,
     canonical |-> Some(Canonical(<<"b","i","n",".","r","s">>)),
     readable |-> FALSE, content |-> <<>>]
\* c.rs, whose path cannot be canonicalized
E_NOCANON ==
    [walk_ok |-> TRUE, name |-> <<"c",".","r","s">>, is_file |-> TRUE,
     canonical |-> None,
     readable |-> TRUE, content |-> <<"/","/","T","O","D","O",":"," ","a">>]
\* l.rs, a link whose canonical path holds ".."
E_ESCAPE ==
    [walk_ok |-> TRUE, name |-> <<"l",".","r","s">>, is_file |-> TRUE,
     canonical |-> Some(<<"/","x",".",".","y","/","l",".","r","s">>),
     readable |-> TRUE, content |-> <<"/","/","T","O","D","O",":"," ","a">>]
\* v..1.rs, a path string holding ".."
E_DOTS ==
    [walk_ok |-> TRUE, name |-> <<"v",".",".","1",".","r","s">>, is_file |-> TRUE,
     canonical |-> Some(Canonical(<<"v",".",".","1",".","r","s">>)),
     readable |-> TRUE, content |-> <<"/","/","T","O","D","O",":"," ","a">>]
\* README.md, an extension outside the allow-list
E_MD ==
    [walk_ok |-> TRUE, name |-> <<"R","E","A","D","M","E",".","m","d">>, is_file |-> TRUE,
     canonical |-> Some(Canonical(<<"R","E","A","D","M","E",".","m","d">>)),
     readable |-> TRUE, content |-> <<"/","/","T","O","D","O",":"," ","a">>]
\* u.RS, an extension of the allow-list in another case
E_UPPER ==
    [walk_ok |-> TRUE, name |-> <<"u",".","R","S">>, is_file |-> TRUE,
     canonical |-> Some(Canonical(<<"u",".","R","S">>)),
     readable |-> TRUE, content |-> <<"/","/","T","O","D","O",":"," ","a">>]
\* src, a directory
E_DIR ==
    [walk_ok |-> TRUE, name |-> <<"s","r","c">>, is_file |-> FALSE,
     canonical |-> Some(Canonical(<<"s","r","c">>)),
     readable |-> TRUE, content |-> <<>>]
\* the walker yields an error instead of an entry
E_WALKERR ==
    [walk_ok |-> FALSE, name |-> <<>>, is_file |-> FALSE,
     canonical |-> None,
     readable |-> FALSE, content |-> <<>>]

\* mk, a file without an extension that holds a marker
E_NOEXT ==
    [walk_ok |-> TRUE, name |-> <<"m","k">>, is_file |-> TRUE,
     canonical |-> Some(Canonical(<<"m","k">>)),
     readable |-> TRUE, content |-> <<"/","/","T","O","D","O",":"," ","a">>]
\* .rs, a hidden file: its name is not an extension
E_HIDDEN ==
    [walk_ok |-> TRUE, name |-> <<".","r","s">>, is_file |-> TRUE,
     canonical |-> Some(Canonical(<<".","r","s">>)),
     readable |-> TRUE, content |-> <<"/","/","T","O","D","O",":"," ","a">>]

EntrySet == {E_A, E_B, E_BIN, E_NOCANON, E_ESCAPE, E_DOTS, E_MD, E_UPPER, E_DIR, E_WALKERR}

\* the root path of the scan command
ROOT == <<"p">>
\* ../p, a root path that goes through the parent directory
ROOT_UP == <<".",".","/","p">>


-----------------------------------------------------------------------------
(* The scan command: main, run_cli, scan_todos *)

\* char::to_lowercase on ASCII, and str::to_lowercase
LowerChar(c) ==
    IF c \in Range(UpperLetters)
    THEN LowerLetters[CHOOSE i \in DOMAIN UpperLetters : UpperLetters[i] = c]
    ELSE c
ToLowercase(s) == [i \in DOMAIN s |-> LowerChar(s[i])]

\* format!("{:?}", todo_type)
DebugName(t) ==
    CASE t = "Todo" -> <<"T","o","d","o">>
      [] t = "Fixme" -> <<"F","i","x","m","e">>
      [] t = "Hack" -> <<"H","a","c","k">>
      [] t = "Note" -> <<"N","o","t","e">>
      [] t = "Bug" -> <<"B","u","g">>

\* a type filter that compares the names as they are written
FilterTodosCaseSensitive(ts, todo_type) ==
    IF IsSome(todo_type)
    THEN SelectSeq(ts, LAMBDA r : DebugName(r.todo_type) = Unwrap(todo_type))
    ELSE ts

\* the type filter of scan_todos
FilterTodos(ts, todo_type) ==
    IF IsSome(todo_type)
    THEN SelectSeq(ts, LAMBDA r :
            ToLowercase(DebugName(r.todo_type)) = ToLowercase(Unwrap(todo_type)))
    ELSE ts

\* a grouping that keeps of each type its last record only
GroupTodosByTypeLast(ts) ==
    [t \in {ts[i].todo_type : i \in DOMAIN ts} |->
        <<ts[CHOOSE i \in DOMAIN ts :
                /\ ts[i].todo_type = t
                /\ \A j \in DOMAIN ts : ts[j].todo_type = t => j <= i]>>]

\* Output::group_todos_by_type: a map from the types present to their records
GroupTodosByType(ts) ==
    [t \in {ts[i].todo_type : i \in DOMAIN ts} |->
        SelectSeq(ts, LAMBDA r : r.todo_type = t)]

\* Formatter::format when it succeeds: the rendered document, kept here as
\* one block that names its formatter and holds what it renders
Format(formatter, grouped, total_count) ==
    <<[formatter |-> formatter, total_count |-> total_count, groups |-> grouped]>>

\* the formatters that end in a serializer, which may return an error
Serializing(formatter) == formatter \in {"JsonFormatter", "TomlFormatter"}

\* the exit status main gives the result of run_cli
ExitStatus(result) == IF result.ok THEN 0 ELSE 1

\* scan_todos leaves with `?` on an error
Leave(r, error, class) ==
    [r EXCEPT !.pc = "returned", !.result = Some(Err(error)), !.fatal = class]

\* a configuration with a marker pattern that names no TodoType
BadConfig == [TestConfig EXCEPT !.todo_patterns = <<P_TODO, P_XXX>>]

\* what TowlConfig::load may return
LoadOutcomes == {Err(<<"CouldNotCreateConfig">>), Ok(TestConfig), Ok(BadConfig)}

\* the state of a process before main runs, on a command line and a tree
RunStart(cli, tree) ==
    [pc |-> "main",
     cli |-> cli,               \* path, format, output, todo_type
     tree |-> tree,             \* what the walker will yield, in order
     scanner |-> None,
     scan |-> ScanStart,
     filtered |-> <<>>,
     outputter |-> None,
     formatted |-> None,
     file |-> [created |-> FALSE, lines |-> <<>>, flushed |-> FALSE],
     stdout |-> <<>>,
     save |-> None,             \* the Result of Output::save
     result |-> None,           \* the Result of run_cli
     fatal |-> "none",          \* the class of the fatal failure met, if any
     exit |-> -1]               \* the exit status, once the process has ended

\* TowlConfig::load(None)?  and  Scanner::new(config.parsing)?
LoadAndBuild ==
    /\ run.pc = "main"
    /\ \E loaded \in LoadOutcomes :
          IF ~loaded.ok THEN run' = Leave(run, loaded.err, "config")
          ELSE LET sc == ScannerNew(loaded.val) IN
               IF ~sc.ok THEN run' = Leave(run, sc.err, "patterns")
               ELSE run' = [run EXCEPT !.pc = "walk", !.scanner = Some(sc.val)]
    /\ UNCHANGED <<parseVars, newVars, outVars, call>>

\* a walk that prints the records of each file as soon as it has them
ScanStepStreaming ==
    /\ run.pc = "walk"
    /\ run.scan.examined < Len(run.tree)
    /\ LET st == ScanIteration(Unwrap(run.scanner), run.cli.path, run.scan,
                               run.tree[run.scan.examined + 1])
       IN run' = [run EXCEPT !.scan = st,
                             !.pc = IF IsSome(st.returned) THEN "scanned" ELSE "walk",
                             !.stdout = @ \o SubSeq(st.todos, Len(run.scan.todos) + 1,
                                                    Len(st.todos))]
    /\ UNCHANGED <<parseVars, newVars, outVars, call>>

\* Scanner::scan: the next entry of the walk
ScanStep ==
    /\ run.pc = "walk"
    /\ run.scan.examined < Len(run.tree)
    /\ LET st == ScanIteration(Unwrap(run.scanner), run.cli.path, run.scan,
                               run.tree[run.scan.examined + 1])
       IN run' = [run EXCEPT !.scan = st,
                             !.pc = IF IsSome(st.returned) THEN "scanned" ELSE "walk"]
    /\ UNCHANGED <<parseVars, newVars, outVars, call>>

\* Scanner::scan: the walk is over, Ok(todos)
ScanFinish ==
    /\ run.pc = "walk"
    /\ run.scan.examined = Len(run.tree)
    /\ run' = [run EXCEPT !.pc = "scanned", !.scan.returned = Some(Ok(run.scan.todos))]
    /\ UNCHANGED <<parseVars, newVars, outVars, call>>

\* scanner.scan(path).await?  and the type filter
FilterScanned ==
    /\ run.pc = "scanned"
    /\ LET r == Unwrap(run.scan.returned) IN
       IF ~r.ok THEN run' = Leave(run, r.err, "walk")
       ELSE run' = [run EXCEPT !.pc = "filtered",
                               !.filtered = FilterTodos(r.val, run.cli.todo_type)]
    /\ UNCHANGED <<parseVars, newVars, outVars, call>>

\* an Output::new whose FileWriter opens its file with File::create at once
BuildOutputCreatingFile ==
    /\ run.pc = "filtered"
    /\ LET o == OutputNew(run.cli.format, run.cli.output) IN
       IF ~o.ok THEN run' = Leave(run, o.err, "output_new")
       ELSE run' = [run EXCEPT !.pc = "save", !.outputter = Some(o.val),
                               !.file.created = (o.val.writer.kind = "File")]
    /\ UNCHANGED <<parseVars, newVars, outVars, call>>

\* Output::new(format, output)?
BuildOutput ==
    /\ run.pc = "filtered"
    /\ LET o == OutputNew(run.cli.format, run.cli.output) IN
       IF ~o.ok THEN run' = Leave(run, o.err, "output_new")
       ELSE run' = [run EXCEPT !.pc = "save", !.outputter = Some(o.val)]
    /\ UNCHANGED <<parseVars, newVars, outVars, call>>

\* Output::save: group, then formatter.format(..) with its `?`
SaveFormat ==
    /\ run.pc = "save"
    /\ LET f == Unwrap(run.outputter).formatter IN
       \E fails \in (IF Serializing(f) THEN BOOLEAN ELSE {FALSE}) :
          IF fails
          THEN run' = [run EXCEPT !.pc = "saved", !.fatal = "format",
                                  !.save = Some(Err(<<"UnableToFormatTodos">>))]
          ELSE run' = [run EXCEPT !.pc = "write",
                                  !.formatted = Some(Format(f, GroupTodosByType(run.filtered),
                                                            Len(run.filtered)))]
    /\ UNCHANGED <<parseVars, newVars, outVars, call>>

\* Output::save: writer.write(formatted) on the console
SaveWriteStdout ==
    /\ run.pc = "write"
    /\ Unwrap(run.outputter).writer.kind = "Stdout"
    /\ run' = [run EXCEPT !.pc = "saved", !.save = Some(Ok(<<>>)),
                          !.stdout = @ \o Unwrap(run.formatted)]
    /\ UNCHANGED <<parseVars, newVars, outVars, call>>

\* Output::save: writer.write(formatted) on a file; create, write_all or
\* flush may fail
SaveWriteFile ==
    /\ run.pc = "write"
    /\ Unwrap(run.outputter).writer.kind = "File"
    /\ LET out == Unwrap(run.formatted) IN
       \/ \* File::create fails
          run' = [run EXCEPT !.pc = "saved", !.fatal = "write",
                             !.save = Some(Err(<<"UnableToWriteTodos", "create">>))]
       \/ \* a write_all fails after k lines
          \E k \in 0..(Len(out) - 1) :
             run' = [run EXCEPT !.pc = "saved", !.fatal = "write",
                                !.save = Some(Err(<<"UnableToWriteTodos", "write">>)),
                                !.file = [created |-> TRUE, lines |-> SubSeq(out, 1, k),
                                          flushed |-> FALSE]]
       \/ \* flush fails
          run' = [run EXCEPT !.pc = "saved", !.fatal = "write",
                             !.save = Some(Err(<<"UnableToWriteTodos", "flush">>)),
                             !.file = [created |-> TRUE, lines |-> out, flushed |-> FALSE]]
       \/ \* Ok(())
          run' = [run EXCEPT !.pc = "saved", !.save = Some(Ok(<<>>)),
                             !.file = [created |-> TRUE, lines |-> out, flushed |-> TRUE]]
    /\ UNCHANGED <<parseVars, newVars, outVars, call>>

\* let _ = outputter.save(..).await; Ok(())
ReturnOk ==
    /\ run.pc = "saved"
    /\ run' = [run EXCEPT !.pc = "returned", !.result = Some(Ok(<<>>))]
    /\ UNCHANGED <<parseVars, newVars, outVars, call>>

\* main: exit(1) on an error of run_cli, else Ok(())
MainExit ==
    /\ run.pc = "returned"
    /\ run' = [run EXCEPT !.pc = "exit", !.exit = ExitStatus(Unwrap(run.result))]
    /\ UNCHANGED <<parseVars, newVars, outVars, call>>

-----------------------------------------------------------------------------
(* Specification Spec: one run of the scan command *)

F_TODO == <<"T","O","D","O">>

CommandLines ==
    [path : {ROOT},
     format : OutputFormats,
     output : {None, Some(O_JSON), Some(O_MD), Some(O_TXT)},
     todo_type : {None, Some(F_TODO)}]

Trees == SeqsUpTo({E_A, E_BIN, E_WALKERR}, MaxTree)

Init ==
    /\ \E cli \in CommandLines, tree \in Trees : run = RunStart(cli, tree)
    /\ IdleParse /\ IdleNew /\ IdleOut /\ IdleCall

Next ==
    \/ LoadAndBuild
    \/ ScanStep
    \/ ScanFinish
    \/ FilterScanned
    \/ BuildOutput
    \/ SaveFormat
    \/ SaveWriteStdout
    \/ SaveWriteFile
    \/ ReturnOk
    \/ MainExit

Spec == Init /\ [][Next]_vars

-----------------------------------------------------------------------------
(* Specification SpecScan: Scanner::scan on a tree, from a built scanner *)

InitScan ==
    /\ \E tree \in SeqsUpTo(EntrySet, MaxWalk) :
          run = [RunStart([path |-> ROOT, format |-> "Table", output |-> None,
                           todo_type |-> None], tree)
                 EXCEPT !.pc = "walk", !.scanner = Some(ScannerNew(TestConfig).val)]
    /\ IdleParse /\ IdleNew /\ IdleOut /\ IdleCall

NextScan == ScanStep \/ ScanFinish
SpecScan == InitScan /\ [][NextScan]_vars

-----------------------------------------------------------------------------
(* Scanner::scan: per-file failures and walker failures *)

\* the entry is a file the scanner is to scan
Eligible(e) == e.walk_ok /\ ShouldFileBeScanned(Unwrap(run.scanner), EntryPath(run.cli.path, e), e)

\* scan_file meets none of its failures on the entry
FileSucceeds(e) ==
    /\ IsSome(e.canonical)
    /\ ~Contains(Unwrap(e.canonical), DotDot)
    /\ e.readable

\* the records of the eligible files of tree[1..n] that succeed, in walk order
RECURSIVE SucceededRecords(_, _)
SucceededRecords(tree, n) ==
    IF n = 0 THEN <<>>
    ELSE SucceededRecords(tree, n - 1) \o
         (IF Eligible(tree[n]) /\ FileSucceeds(tree[n])
          THEN Parse(Unwrap(run.scanner).parser, EntryPath(run.cli.path, tree[n]),
                     tree[n].content).val
          ELSE <<>>)

\* the paths of tree[1..n] that scan_file reads, in walk order
RECURSIVE ReadPaths(_, _)
ReadPaths(tree, n) ==
    IF n = 0 THEN <<>>
    ELSE ReadPaths(tree, n - 1) \o
         (IF Eligible(tree[n]) /\ IsSome(tree[n].canonical)
             /\ ~Contains(Unwrap(tree[n].canonical), DotDot)
          THEN <<EntryPath(run.cli.path, tree[n])>>
          ELSE <<>>)

WalkErrors(tree) == {i \in DOMAIN tree : ~tree[i].walk_ok}
FirstWalkError(tree) == CHOOSE i \in WalkErrors(tree) : \A j \in WalkErrors(tree) : i <= j

\* C1: when the walk itself yields no error, scan takes every entry of the
\* walk and returns Ok with exactly the records of the eligible files that
\* scan_file succeeded on, concatenated in walk order; a file that fails in
\* scan_file adds no record and one logged error.
C1_PerFileFailuresIsolated ==
    (run # <<>> /\ run.pc = "scanned" /\ WalkErrors(run.tree) = {}) =>
       /\ run.scan.examined = Len(run.tree)
       /\ run.scan.returned = Some(Ok(SucceededRecords(run.tree, Len(run.tree))))
       /\ run.scan.logged =
             Cardinality({i \in DOMAIN run.tree :
                             Eligible(run.tree[i]) /\ ~FileSucceeds(run.tree[i])})

\* a scan that returned the records of files before and after a failing file
C1_Witness ==
    /\ run # <<>>
    /\ run.pc = "scanned"
    /\ Len(run.tree) = 3
    /\ Eligible(run.tree[1]) /\ FileSucceeds(run.tree[1])
    /\ Eligible(run.tree[2]) /\ ~FileSucceeds(run.tree[2])
    /\ Eligible(run.tree[3]) /\ FileSucceeds(run.tree[3])
    /\ Unwrap(run.scan.returned).ok
    /\ Len(Unwrap(run.scan.returned).val) = 2

\* C8: when the walk yields an error, scan returns UnableToWalkFile with no
\* record, having taken no entry after the first error and read no file
\* after it.
C8_WalkErrorIsFatal ==
    (run # <<>> /\ run.pc = "scanned" /\ WalkErrors(run.tree) # {}) =>
       LET k == FirstWalkError(run.tree)
           r == Unwrap(run.scan.returned)
       IN /\ ~r.ok
          /\ r.err = <<"UnableToWalkFile">>
          /\ r.val = <<>>
          /\ run.scan.examined = k
          /\ run.scan.reads = ReadPaths(run.tree, k - 1)

\* a scan that had records from an earlier file when the walk failed, with an
\* eligible file still to come
C8_Witness ==
    /\ run # <<>>
    /\ run.pc = "scanned"
    /\ ~Unwrap(run.scan.returned).ok
    /\ run.scan.todos # <<>>
    /\ run.scan.examined < Len(run.tree)
    /\ Eligible(run.tree[Len(run.tree)]) /\ FileSucceeds(run.tree[Len(run.tree)])

-----------------------------------------------------------------------------
(* The scan command: exit status and the order of its stages *)

\* C2: at the end of a run the exit status is non-zero exactly when a
\* fatal-class failure (configuration, pattern compilation, walker, Output::new,
\* formatting, write or flush) occurred; per-file failures leave it zero.
C2_FatalFailureExitsNonZero ==
    (run # <<>> /\ run.pc = "exit") => (run.exit # 0 <=> run.fatal # "none")

\* C5: in a run whose format and output path violate the pairing, no source
\* file is read and no output file is created.
C5_RejectedBeforeAnyIO ==
    (run # <<>> /\ ~PairingAllowed(run.cli.format, run.cli.output)) =>
       /\ run.scan.reads = <<>>
       /\ ~run.file.created

-----------------------------------------------------------------------------
(* Specification SpecContext: one call of Parser::find_function_context *)

\* "  fn g_1() {"
L_FN_INDENT == <<" "," ","f","n"," ","g","_","1","(",")"," ","{">>
\* "def h(x):"
L_DEF == <<"d","e","f"," ","h","(","x",")",":">>
\* "impl A {"
L_IMPL == <<"i","m","p","l"," ","A"," ","{">>

ContextLineSet == {L_FN, L_FN_INDENT, L_DEF, L_IMPL, L_CODE}

\* a configuration whose declaration patterns start with ^\s*impl\s+(.*)
ImplConfig == [TestConfig EXCEPT !.function_patterns = <<P_IMPL, P_FN>>]

InitContext ==
    /\ \E cfg \in {TestConfig, ImplConfig} :
       \E ls \in SeqsUpTo(ContextLineSet, MaxCtxLines) \ {<<>>} :
       \E c \in 0..(Len(ls) - 1) :
          call = [op |-> "find_function_context", parser |-> ParserNew(cfg).val,
                  lines |-> ls, current_line |-> c, returned |-> FALSE, result |-> None]
    /\ IdleParse /\ IdleNew /\ IdleOut /\ IdleRun

CallFindFunctionContext ==
    /\ call.op = "find_function_context"
    /\ ~call.returned
    /\ call' = [call EXCEPT !.returned = TRUE,
                            !.result = FindFunctionContext(call.parser, call.lines,
                                                           call.current_line)]
    /\ UNCHANGED <<parseVars, newVars, outVars, run>>

NextContext == CallFindFunctionContext
SpecContext == InitContext /\ [][NextContext]_vars

ContextReturned ==
    call # <<>> /\ call.op = "find_function_context" /\ call.returned

\* the groups 1.. of the match of declaration pattern k on a line
GroupTexts(pats, line, k) ==
    LET caps == Captures(pats[k], line) IN
    IF ~IsSome(caps) THEN <<>>
    ELSE [j \in 1..(Unwrap(caps).len - 1) |->
            IF IsSome(Unwrap(caps).groups[j])
            THEN Some(SpanStr(line, Unwrap(Unwrap(caps).groups[j]))) ELSE None]

\* a captured text that can be a name: not empty, alphanumerics and "_" only
IsName(t) == IsSome(t) /\ Unwrap(t) # <<>>
             /\ \A c \in Range(Unwrap(t)) : IsAlphanumeric(c) \/ c = "_"

\* the declaration patterns that match the line
MatchingDeclarations(pats, line) == {k \in DOMAIN pats : IsMatch(pats[k], line)}

\* the declaration patterns that match the line with a group that can be a name
NamingDeclarations(pats, line) ==
    {k \in DOMAIN pats : \E j \in DOMAIN GroupTexts(pats, line, k) :
                            IsName(GroupTexts(pats, line, k)[j])}

Least(S) == CHOOSE x \in S : \A y \in S : x <= y
Greatest(S) == CHOOSE x \in S : \A y \in S : x >= y

\* the name a line declares: the first group that can be a name, of the first
\* pattern that has one
DeclaredName(pats, line) ==
    LET k == Least(NamingDeclarations(pats, line))
        g == GroupTexts(pats, line, k)
    IN Unwrap(g[Least({j \in DOMAIN g : IsName(g[j])})])

\* C11 as stated: none when no declaration pattern matches a line in 0..c,
\* otherwise "name:k" for the nearest line at or before c that a declaration
\* pattern matches, name being a group of that match.
C11_NearestMatchingLine ==
    ContextReturned =>
       LET pats == call.parser.function_patterns
           M == {i \in 0..call.current_line :
                    MatchingDeclarations(pats, call.lines[i + 1]) # {}}
       IN IF M = {} THEN call.result = None
          ELSE LET line == call.lines[Greatest(M) + 1] IN
               \E k \in MatchingDeclarations(pats, line) :
               \E j \in DOMAIN GroupTexts(pats, line, k) :
                  /\ IsSome(GroupTexts(pats, line, k)[j])
                  /\ call.result = Some(Unwrap(GroupTexts(pats, line, k)[j]) \o <<":">>
                                        \o ToDigits(Greatest(M) + 1))

\* C11 amended: none when no line in 0..c has a declaration match with a
\* group that is not empty and made of alphanumerics and "_"; otherwise
\* "name:k" for the nearest such line at or before c, name being the first such
\* group of the first pattern, in configuration order, that has one there.
C11_NearestNamingLine ==
    ContextReturned =>
       LET pats == call.parser.function_patterns
           N == {i \in 0..call.current_line :
                    NamingDeclarations(pats, call.lines[i + 1]) # {}}
       IN IF N = {} THEN call.result = None
          ELSE call.result = Some(DeclaredName(pats, call.lines[Greatest(N) + 1])
                                  \o <<":">> \o ToDigits(Greatest(N) + 1))

\* a call with two naming lines at or before c, and after the later of them a
\* line that a declaration pattern matches without naming anything
C11_Witness ==
    /\ ContextReturned
    /\ call.current_line = 2
    /\ NamingDeclarations(call.parser.function_patterns, call.lines[1]) # {}
    /\ NamingDeclarations(call.parser.function_patterns, call.lines[2]) # {}
    /\ MatchingDeclarations(call.parser.function_patterns, call.lines[3]) # {}
    /\ NamingDeclarations(call.parser.function_patterns, call.lines[3]) = {}
    /\ IsSome(call.result)

-----------------------------------------------------------------------------
(* Specification SpecVisit: Scanner::scan over every kind of entry *)

VisitSet == EntrySet \cup {E_NOEXT, E_HIDDEN}

InitVisit ==
    /\ \E root \in {ROOT, ROOT_UP}, tree \in SeqsUpTo(VisitSet, MaxVisit) :
          run = [RunStart([path |-> root, format |-> "Table", output |-> None,
                           todo_type |-> None], tree)
                 EXCEPT !.pc = "walk", !.scanner = Some(ScannerNew(TestConfig).val)]
    /\ IdleParse /\ IdleNew /\ IdleOut /\ IdleCall

SpecVisit == InitVisit /\ [][NextScan]_vars

\* the entries the walk has yielded so far that are files
VisitedFiles ==
    {i \in 1..run.scan.examined : run.tree[i].walk_ok /\ run.tree[i].is_file}

PathOf(i) == EntryPath(run.cli.path, run.tree[i])

\* the extension of the path is, as it stands, an element of file_extensions
ExtensionListed(path) ==
    /\ IsSome(Extension(path))
    /\ Unwrap(Extension(path)) \in Range(Unwrap(run.scanner).config.file_extensions)

\* the path was never handed to scan_file, never read, and no record names it
Untouched(path) ==
    /\ path \notin Range(run.scan.calls)
    /\ path \notin Range(run.scan.reads)
    /\ \A k \in DOMAIN run.scan.todos : run.scan.todos[k].file_path # path

\* the markers the parser would find in the content of an entry
WouldYield(i) == Parse(Unwrap(run.scanner).parser, PathOf(i), run.tree[i].content).val

\* C12: a visited file whose extension is not, case-sensitively, an element
\* of file_extensions (or that has no extension) is never handed to scan_file,
\* never read, and no record comes from it; every record and every read is of
\* a path with a listed extension.
C12_ExtensionAllowList ==
    (run # <<>> /\ run.pc \in {"walk", "scanned"}) =>
       /\ \A i \in VisitedFiles : ~ExtensionListed(PathOf(i)) => Untouched(PathOf(i))
       /\ \A k \in DOMAIN run.scan.todos : ExtensionListed(run.scan.todos[k].file_path)
       /\ \A k \in DOMAIN run.scan.reads : ExtensionListed(run.scan.reads[k])

\* a finished scan that passed over a file with markers whose extension
\* differs from a listed one only in case, and returned records of another
C12_Witness ==
    /\ run # <<>>
    /\ run.pc = "scanned"
    /\ \E i \in VisitedFiles :
          /\ ~ExtensionListed(PathOf(i))
          /\ IsSome(Extension(PathOf(i)))
          /\ ToLowercase(Unwrap(Extension(PathOf(i)))) \in
                Range(Unwrap(run.scanner).config.file_extensions)
          /\ WouldYield(i) # <<>>
    /\ Unwrap(run.scan.returned).ok
    /\ Unwrap(run.scan.returned).val # <<>>

\* C13: a visited path whose string contains ".." is never handed to
\* scan_file (no canonicalize, no read_to_string), and no record comes from it.
C13_DotDotNeverRead ==
    (run # <<>> /\ run.pc \in {"walk", "scanned"}) =>
       \A i \in 1..run.scan.examined :
          (run.tree[i].walk_ok /\ Contains(PathOf(i), DotDot)) => Untouched(PathOf(i))

\* a finished scan that passed over a readable file with a listed extension
\* and markers, under a root without "..", because its name holds ".."
C13_Witness ==
    /\ run # <<>>
    /\ run.pc = "scanned"
    /\ ~Contains(run.cli.path, DotDot)
    /\ \E i \in VisitedFiles :
          /\ Contains(PathOf(i), DotDot)
          /\ ExtensionListed(PathOf(i))
          /\ run.tree[i].readable
          /\ WouldYield(i) # <<>>

-----------------------------------------------------------------------------
(* The scan command: the scan is over before anything is rendered *)

\* a formatter or a writer has acted
OutputActed ==
    \/ IsSome(run.formatted)
    \/ IsSome(run.save)
    \/ run.stdout # <<>>
    \/ run.file.created

\* Scanner::scan has returned Ok after the last entry of the walk
ScanComplete ==
    /\ IsSome(run.scan.returned)
    /\ Unwrap(run.scan.returned).ok
    /\ run.scan.examined = Len(run.tree)

\* C14: no formatter or writer step happens before the walker has yielded
\* its last entry and scan has returned; and while the walk runs, the records
\* and reads so far are exactly those of the entries already yielded, whole
\* files in walk order.
C14_OutputAfterScan ==
    run # <<>> =>
       /\ OutputActed => ScanComplete
       /\ (run.pc = "walk" /\ WalkErrors(SubSeq(run.tree, 1, run.scan.examined)) = {}) =>
             /\ run.scan.todos = SucceededRecords(run.tree, run.scan.examined)
             /\ run.scan.reads = ReadPaths(run.tree, run.scan.examined)

\* a run that printed the records of a walk of two entries
C14_Witness ==
    /\ run # <<>>
    /\ run.pc = "saved"
    /\ run.stdout # <<>>
    /\ Len(run.tree) = 2
    /\ Len(run.filtered) >= 1
    /\ run.scan.logged >= 1

-----------------------------------------------------------------------------
(* Parser::parse: the position of a record *)

\* the keyword a marker type is recognised by
KeywordOf(t) ==
    CASE t = "Todo" -> W_TODO
      [] t = "Fixme" -> W_FIXME
      [] t = "Hack" -> W_HACK
      [] t = "Note" -> W_NOTE
      [] t = "Bug" -> W_BUG

\* C15: every record names its line by its 1-indexed position in the content
\* and carries that raw line; column_start and column_end are the offsets,
\* from 0, of the start and the end of the whole match of its marker pattern in
\* that line, so the text between them starts with the marker's keyword; every
\* marker line preceded by k lines has a record with line_number k + 1; and
\* `// TODO: Fix this bug` alone yields one record: Todo, "Fix this bug",
\* line 1, columns 3 to 21.
C15_RecordPosition ==
    parsePc = "done" =>
       /\ \A n \in DOMAIN todos :
             LET t == todos[n] IN
             /\ t.line_number \in 1..Len(lines)
             /\ t.original_text = lines[t.line_number]
             /\ 0 <= t.column_start /\ t.column_start <= t.column_end
             /\ t.column_end <= Len(t.original_text)
             /\ \E k \in DOMAIN parser.patterns :
                   LET caps == Captures(parser.patterns[k].regex, t.original_text) IN
                   /\ parser.patterns[k].todo_type = t.todo_type
                   /\ IsSome(caps)
                   /\ Unwrap(caps).start = t.column_start
                   /\ Unwrap(caps).end = t.column_end
             /\ ToUppercase(SubSeq(t.original_text, t.column_start + 1,
                                   t.column_start + Len(KeywordOf(t.todo_type))))
                   = KeywordOf(t.todo_type)
       /\ \A i \in 0..(Len(lines) - 1) :
             (~MatchesNoPrefix(lines[i + 1]) /\ MatchingPatterns(lines[i + 1]) # <<>>) =>
                \E n \in DOMAIN todos : /\ todos[n].line_number = i + 1
                                        /\ todos[n].original_text = lines[i + 1]
       /\ (lines = <<L_TODO_FIX>> /\ parser = ParserNew(TestConfig).val) =>
             /\ Len(todos) = 1
             /\ todos[1].todo_type = "Todo"
             /\ todos[1].description = <<"F","i","x"," ","t","h","i","s"," ","b","u","g">>
             /\ todos[1].line_number = 1
             /\ todos[1].column_start = 3
             /\ todos[1].column_end = 21

\* a content whose second line is `// TODO: Fix this bug` has been parsed
C15_Witness ==
    /\ parsePc = "done"
    /\ Len(lines) = 2
    /\ lines[2] = L_TODO_FIX
    /\ \E n \in DOMAIN todos : /\ todos[n].line_number = 2
                               /\ todos[n].column_start = 3
                               /\ todos[n].todo_type = "Todo"

-----------------------------------------------------------------------------
(* Specification SpecFileWriter: one call of FileWriter::write *)

\* the file at a path: whether it exists, its bytes, and whether all of them
\* have been flushed
NoFile == [exists |-> FALSE, data |-> <<>>, flushed |-> TRUE]
FileWith(data) == [exists |-> TRUE, data |-> data, flushed |-> TRUE]

\* an open that keeps the bytes the file holds
FileCreateKeeping(file) == [exists |-> TRUE, data |-> file.data, flushed |-> TRUE]

\* File::create when it succeeds: the file exists and is empty
FileCreate(file) == [exists |-> TRUE, data |-> <<>>, flushed |-> TRUE]

\* write_all: the first n of the bytes reach the file
WriteAll(file, bytes, n) ==
    [file EXCEPT !.data = @ \o SubSeq(bytes, 1, n), !.flushed = (n = 0 /\ @)]

\* flush when it succeeds
Flush(file) == [file EXCEPT !.flushed = TRUE]

\* WriterError::IoError
IoError == <<"IoError">>

OutLines == {<<>>, <<"a">>, <<"b",",","c">>}
OldFiles == {NoFile, FileWith(<<>>), FileWith(<<"o","l","d">>)}

InitFileWriter ==
    /\ \E c \in SeqsUpTo(OutLines, MaxOut), old \in OldFiles :
          call = [op |-> "FileWriter::write", content |-> c, old |-> old, file |-> old,
                  pc |-> "create", i |-> 1, result |-> None]
    /\ IdleParse /\ IdleNew /\ IdleOut /\ IdleRun

\* where the loop over the content goes after item i
AfterItem(c, i) == IF i > Len(c) THEN "flush" ELSE "item"

\* File::create(&self.path) and its `?`
FwCreate ==
    /\ call.op = "FileWriter::write" /\ call.pc = "create"
    /\ \/ call' = [call EXCEPT !.pc = "done", !.result = Some(Err(IoError))]
       \/ call' = [call EXCEPT !.file = FileCreate(@), !.pc = AfterItem(call.content, 1)]
    /\ UNCHANGED <<parseVars, newVars, outVars, run>>

\* file.write_all(item.as_bytes()) and its `?`
FwWriteItem ==
    /\ call.op = "FileWriter::write" /\ call.pc = "item"
    /\ LET bytes == call.content[call.i] IN
       \/ \E n \in 0..(Len(bytes) - 1) :
             call' = [call EXCEPT !.file = WriteAll(@, bytes, n), !.pc = "done",
                                  !.result = Some(Err(IoError))]
       \/ call' = [call EXCEPT !.file = WriteAll(@, bytes, Len(bytes)), !.pc = "newline"]
    /\ UNCHANGED <<parseVars, newVars, outVars, run>>

\* file.write_all(b"\n") and its `?`
FwWriteNewline ==
    /\ call.op = "FileWriter::write" /\ call.pc = "newline"
    /\ \/ call' = [call EXCEPT !.pc = "done", !.result = Some(Err(IoError))]
       \/ call' = [call EXCEPT !.file = WriteAll(@, <<"\n">>, 1), !.i = @ + 1,
                               !.pc = AfterItem(call.content, call.i + 1)]
    /\ UNCHANGED <<parseVars, newVars, outVars, run>>

\* file.flush() and its `?`, then Ok(())
FwFlush ==
    /\ call.op = "FileWriter::write" /\ call.pc = "flush"
    /\ \/ call' = [call EXCEPT !.pc = "done", !.result = Some(Err(IoError))]
       \/ call' = [call EXCEPT !.file = Flush(@), !.pc = "done", !.result = Some(Ok(<<>>))]
    /\ UNCHANGED <<parseVars, newVars, outVars, run>>

NextFileWriter == FwCreate \/ FwWriteItem \/ FwWriteNewline \/ FwFlush
SpecFileWriter == InitFileWriter /\ [][NextFileWriter]_vars

\* every line followed by a newline, in order
LinesWithNewlines(c) == Concat([k \in DOMAIN c |-> c[k] \o <<"\n">>])

IsPrefix(a, b) == Len(a) <= Len(b) /\ a = SubSeq(b, 1, Len(a))

\* C16: when FileWriter::write returns Ok the file exists, is flushed, and
\* holds exactly every line followed by a newline, in order, and nothing of its
\* earlier content; every failure is returned as IoError, and then the file is
\* either as it was (create failed) or holds a prefix of that output.
C16_FileWriterWrite ==
    (call # <<>> /\ call.op = "FileWriter::write") =>
       /\ call.pc = "done" <=> IsSome(call.result)
       /\ IsSome(call.result) =>
             LET r == Unwrap(call.result) IN
             IF r.ok
             THEN /\ call.file.exists
                  /\ call.file.flushed
                  /\ call.file.data = LinesWithNewlines(call.content)
             ELSE /\ r.err = IoError
                  /\ \/ call.file = call.old
                     \/ /\ call.file.exists
                        /\ IsPrefix(call.file.data, LinesWithNewlines(call.content))

\* a write of two lines over a file that held other bytes returned Ok
C16_Witness ==
    /\ call # <<>> /\ call.op = "FileWriter::write"
    /\ IsSome(call.result) /\ Unwrap(call.result).ok
    /\ Len(call.content) = 2
    /\ call.old.data # <<>>
    /\ call.file.data # <<>>

-----------------------------------------------------------------------------
(* The formatters.  A formatter walks the map of Output::group_todos_by_type, *)
(* a HashMap: the order of its keys is one of their permutations, and is an  *)
(* argument here.                                                            *)

\* the orders in which a HashMap may yield the keys of a grouping
Orders(grouped) ==
    {o \in [1..Cardinality(DOMAIN grouped) -> DOMAIN grouped] :
        \A i, j \in DOMAIN o : o[i] = o[j] => i = j}

\* str::replace('"', "\"\"")
RECURSIVE DoubleQuotes(_)
DoubleQuotes(s) ==
    IF s = <<>> THEN <<>>
    ELSE (IF Head(s) = "\"" THEN <<"\"", "\"">> ELSE <<Head(s)>>) \o DoubleQuotes(Tail(s))

\* an escape that wraps the field and leaves its quotes single
EscapeCsvFieldNoDoubling(field) ==
    IF "," \in Range(field) \/ "\"" \in Range(field) \/ "\n" \in Range(field)
    THEN <<"\"">> \o field \o <<"\"">>
    ELSE field

\* escape_csv_field
EscapeCsvField(field) ==
    IF "," \in Range(field) \/ "\"" \in Range(field) \/ "\n" \in Range(field)
    THEN <<"\"">> \o DoubleQuotes(field) \o <<"\"">>
    ELSE field

\* the header row of CsvFormatter::format
CsvHeader == Join(<<<<"T","y","p","e">>,
                     <<"D","e","s","c","r","i","p","t","i","o","n">>,
                     <<"F","i","l","e">>,
                     <<"L","i","n","e">>,
                     <<"C","o","l","u","m","n"," ","S","t","a","r","t">>,
                     <<"C","o","l","u","m","n"," ","E","n","d">>,
                     <<"F","u","n","c","t","i","o","n">>,
                     <<"O","r","i","g","i","n","a","l"," ","T","e","x","t">>>>, <<",">>)

\* the row CsvFormatter::format pushes for one record of a group
CsvRow(todo_type, todo) ==
    Join(<<EscapeCsvField(DebugName(todo_type)),
           EscapeCsvField(Trim(todo.description)),
           EscapeCsvField(todo.file_path),
           ToDigits(todo.line_number),
           ToDigits(todo.column_start),
           ToDigits(todo.column_end),
           IF IsSome(todo.function_context)
           THEN EscapeCsvField(Unwrap(todo.function_context)) ELSE <<>>,
           EscapeCsvField(Trim(todo.original_text))>>, <<",">>)

\* CsvFormatter::format
CsvFormat(grouped, order, total_count) ==
    Ok(<<CsvHeader>> \o
       Concat([g \in DOMAIN order |->
                 [n \in DOMAIN grouped[order[g]] |->
                     CsvRow(order[g], grouped[order[g]][n])]]))

\* an item that carries "function" for every record, empty when there is none
JsonItemAlwaysFunction(todo) ==
    [description |-> Trim(todo.description), file |-> todo.file_path,
     line |-> todo.line_number, column_start |-> todo.column_start,
     column_end |-> todo.column_end, original_text |-> Trim(todo.original_text),
     function |-> IF IsSome(todo.function_context)
                  THEN Unwrap(todo.function_context) ELSE <<>>]

\* the JSON object JsonFormatter::format builds for one record
JsonItem(todo) ==
    LET todo_json == [description |-> Trim(todo.description), file |-> todo.file_path,
                      line |-> todo.line_number, column_start |-> todo.column_start,
                      column_end |-> todo.column_end,
                      original_text |-> Trim(todo.original_text)]
    IN IF IsSome(todo.function_context)
       THEN todo_json @@ ("function" :> Unwrap(todo.function_context))
       ELSE todo_json

\* the JSON object of one group
JsonGroup(todo_type, todos_of_type) ==
    [type |-> DebugName(todo_type), count |-> Len(todos_of_type),
     items |-> [n \in DOMAIN todos_of_type |-> JsonItem(todos_of_type[n])]]

\* JsonFormatter::format: one string, the document serde_json prints of the
\* value built here (a JSON object is a function on its keys), or the error
\* of the serializer
JsonFormat(grouped, order, total_count, fails) ==
    LET groups == [g \in DOMAIN order |-> JsonGroup(order[g], grouped[order[g]])]
        result == [summary |-> [total_todos |-> total_count, total_groups |-> Len(groups)],
                   groups |-> groups]
    IN IF fails THEN Err("SerializationError") ELSE Ok(<<result>>)

\* the bytes of a character in UTF-8, for the characters of the texts here;
\* the ellipsis and the box-drawing characters of table.rs are written by
\* their code points, "U+2026" being one character
ByteLen(c) ==
    IF c = "é" THEN 2
    ELSE IF c \in {"U+2026", "U+2502", "U+2500", "U+250C", "U+2510", "U+252C", "U+251C", "U+2524", "U+253C", "U+2514", "U+2518", "U+2534"} THEN 3
    ELSE 1

\* str::len, the length in bytes
StrLen(s) ==
    Len(s) + Cardinality({i \in DOMAIN s : ByteLen(s[i]) = 2})
           + 2 * Cardinality({i \in DOMAIN s : ByteLen(s[i]) = 3})

\* str::is_char_boundary
IsCharBoundary(s, b) == \E k \in 0..Len(s) : StrLen(SubSeq(s, 1, k)) = b

\* the unwinding of the thread at a panic: the call returns nothing
Panic == Err("panic")

Larger(a, b) == IF a >= b THEN a ELSE b
Smaller(a, b) == IF a <= b THEN a ELSE b

\* TableFormatter::calculate_column_widths
CalculateColumnWidths(grouped) ==
    LET todos_of == UNION {Range(grouped[t]) : t \in DOMAIN grouped}
    IN [type |-> Greatest({4} \cup {StrLen(DebugName(t)) : t \in DOMAIN grouped}),
        desc |-> Greatest({11} \cup {Smaller(StrLen(Trim(r.description)), 50) : r \in todos_of}),
        file |-> Greatest({4} \cup {Smaller(StrLen(r.file_path), 40) : r \in todos_of}),
        line |-> Greatest({4} \cup {StrLen(ToDigits(r.line_number)) : r \in todos_of}),
        func |-> Greatest({8} \cup {Smaller(StrLen(Unwrap(r.function_context)), 30) :
                                       r \in {x \in todos_of : IsSome(x.function_context)}})]

\* TableFormatter::truncate_string: the slice &s[0..max_len - 1] panics when
\* its end is not on a character boundary
TruncateString(s, max_len) ==
    IF StrLen(s) <= max_len THEN Ok(s)
    ELSE LET end == Larger(max_len - 1, 0)
         IN IF IsCharBoundary(s, end)
            THEN Ok(SubSeq(s, 1, CHOOSE k \in 0..Len(s) : StrLen(SubSeq(s, 1, k)) = end)
                    \o <<"U+2026">>)
            ELSE Panic

\* {:<width$} and {:>width$}: padding with spaces to `width` characters
PadRight(s, width) == s \o [i \in 1..(width - Len(s)) |-> " "]
PadLeft(s, width) == [i \in 1..(width - Len(s)) |-> " "] \o s

\* str::repeat
Repeat(c, n) == [i \in 1..n |-> c]

\* TableFormatter::format_row
FormatRow(cells, widths, is_header) ==
    LET type_truncated == TruncateString(cells[1], widths.type)
        desc_truncated == TruncateString(cells[2], widths.desc)
        file_truncated == TruncateString(cells[3], widths.file)
        line_truncated == TruncateString(cells[4], widths.line)
        func_truncated == TruncateString(cells[5], widths.func)
    IN IF ~(type_truncated.ok /\ desc_truncated.ok /\ file_truncated.ok
            /\ line_truncated.ok /\ func_truncated.ok)
       THEN Panic
       ELSE Ok(<<"U+2502", " ">> \o PadRight(type_truncated.val, widths.type)
               \o <<" ", "U+2502", " ">> \o PadRight(desc_truncated.val, widths.desc)
               \o <<" ", "U+2502", " ">> \o PadRight(file_truncated.val, widths.file)
               \o <<" ", "U+2502", " ">>
               \o (IF is_header THEN PadRight(line_truncated.val, widths.line)
                   ELSE PadLeft(line_truncated.val, widths.line))
               \o <<" ", "U+2502", " ">> \o PadRight(func_truncated.val, widths.func)
               \o <<" ", "U+2502">>)

\* TableFormatter::format_separator
FormatSeparator(widths, is_top) ==
    LET left == IF is_top THEN "U+250C" ELSE "U+251C"
        right == IF is_top THEN "U+2510" ELSE "U+2524"
        cross == IF is_top THEN "U+252C" ELSE "U+253C"
    IN <<left>> \o Repeat("U+2500", widths.type + 2) \o <<cross>>
       \o Repeat("U+2500", widths.desc + 2) \o <<cross>>
       \o Repeat("U+2500", widths.file + 2) \o <<cross>>
       \o Repeat("U+2500", widths.line + 2) \o <<cross>>
       \o Repeat("U+2500", widths.func + 2) \o <<right>>

\* TableFormatter::format_bottom
FormatBottom(widths) ==
    <<"U+2514">> \o Repeat("U+2500", widths.type + 2) \o <<"U+2534">>
    \o Repeat("U+2500", widths.desc + 2) \o <<"U+2534">>
    \o Repeat("U+2500", widths.file + 2) \o <<"U+2534">>
    \o Repeat("U+2500", widths.line + 2) \o <<"U+2534">>
    \o Repeat("U+2500", widths.func + 2) \o <<"U+2518">>

\* the line TableFormatter::format pushes when there is no record
NoTodosLine == <<"N","o"," ","T","O","D","O"," ","c","o","m","m","e","n","t","s"," ","f","o","u","n","d",".">>

\* the first line of a table: "Found {} TODO comment{} in {} group{}"
TableSummary(total_count, groups) ==
    <<"F","o","u","n","d"," ">> \o ToDigits(total_count) \o <<" ","T","O","D","O"," ","c","o","m","m","e","n","t">>
    \o (IF total_count = 1 THEN <<>> ELSE <<"s">>)
    \o <<" ","i","n"," ">> \o ToDigits(groups) \o <<" ","g","r","o","u","p">>
    \o (IF groups = 1 THEN <<>> ELSE <<"s">>)

\* TableFormatter::format
TableFormat(grouped, order, total_count) ==
    IF total_count = 0 THEN Ok(<<NoTodosLine>>)
    ELSE LET widths == CalculateColumnWidths(grouped)
             header == FormatRow(<<<<"T","y","p","e">>, <<"D","e","s","c","r","i","p","t","i","o","n">>, <<"F","i","l","e">>, <<"L","i","n","e">>, <<"F","u","n","c","t","i","o","n">>>>, widths, TRUE)
             rows == Concat([g \in DOMAIN order |->
                        [n \in DOMAIN grouped[order[g]] |->
                            LET todo == grouped[order[g]][n]
                            IN FormatRow(<<DebugName(order[g]), Trim(todo.description),
                                           todo.file_path, ToDigits(todo.line_number),
                                           IF IsSome(todo.function_context)
                                           THEN Unwrap(todo.function_context) ELSE <<>>>>,
                                         widths, FALSE)]])
         IN IF ~header.ok \/ \E n \in DOMAIN rows : ~rows[n].ok
            THEN Panic
            ELSE Ok(<<TableSummary(total_count, Cardinality(DOMAIN grouped)), <<>>,
                      FormatSeparator(widths, TRUE), header.val,
                      FormatSeparator(widths, FALSE)>>
                    \o [n \in DOMAIN rows |-> rows[n].val]
                    \o <<FormatBottom(widths)>>)

\* the TOML table TomlFormatter::format builds for one record
TomlItem(todo) ==
    LET todo_table == [description |-> Trim(todo.description), file |-> todo.file_path,
                       line |-> todo.line_number, column_start |-> todo.column_start,
                       column_end |-> todo.column_end,
                       original_text |-> Trim(todo.original_text)]
    IN IF IsSome(todo.function_context)
       THEN todo_table @@ ("function" :> Unwrap(todo.function_context))
       ELSE todo_table

\* the key of the summary table
SUMMARY_KEY == <<"s","u","m","m","a","r","y">>

\* a document that counts under "total_todos" the groups of the map
TomlFormatCountingGroups(grouped, order, total_count, fails) ==
    LET summary == [total_todos |-> Cardinality(DOMAIN grouped),
                    total_groups |-> Cardinality(DOMAIN grouped)]
        root == [key \in {SUMMARY_KEY} \cup {ToLowercase(DebugName(t)) : t \in DOMAIN grouped} |->
                    IF key = SUMMARY_KEY THEN summary
                    ELSE LET t == CHOOSE x \in DOMAIN grouped : ToLowercase(DebugName(x)) = key
                         IN [count |-> Len(grouped[t]),
                             items |-> [n \in DOMAIN grouped[t] |-> TomlItem(grouped[t][n])]]]
    IN IF fails THEN Err("SerializationError") ELSE Ok(<<root>>)

\* TomlFormatter::format: one string, the document toml prints of the root
\* table built here (a table is a function on its keys, "summary" and the
\* lowercased names of the types present), or the error of the serializer
TomlFormat(grouped, order, total_count, fails) ==
    LET summary == [total_todos |-> total_count,
                    total_groups |-> Cardinality(DOMAIN grouped)]
        root == [key \in {SUMMARY_KEY} \cup {ToLowercase(DebugName(t)) : t \in DOMAIN grouped} |->
                    IF key = SUMMARY_KEY THEN summary
                    ELSE LET t == CHOOSE x \in DOMAIN grouped : ToLowercase(DebugName(x)) = key
                         IN [count |-> Len(grouped[t]),
                             items |-> [n \in DOMAIN grouped[t] |-> TomlItem(grouped[t][n])]]]
    IN IF fails THEN Err("SerializationError") ELSE Ok(<<root>>)

\* the line MarkdownFormatter::format pushes for one record; the backtick is
\* written by its code point, "U+0060" being one character
MarkdownItem(todo) ==
    LET location == todo.file_path \o <<":">> \o ToDigits(todo.line_number)
    IN IF IsSome(todo.function_context)
       THEN <<"-"," ","*","*">> \o Trim(todo.description) \o <<"*","*"," ","@"," ","U+0060">> \o location
            \o <<"U+0060"," ","(","i","n"," ","U+0060">> \o Unwrap(todo.function_context) \o <<"U+0060",")">>
       ELSE <<"-"," ","*","*">> \o Trim(todo.description) \o <<"*","*"," ","@"," ","U+0060">> \o location \o <<"U+0060">>

\* the heading MarkdownFormatter::format pushes for one group
MarkdownHeading(todo_type, todos_of_type) ==
    <<"#","#"," ">> \o DebugName(todo_type) \o <<" ","(">> \o ToDigits(Len(todos_of_type))
    \o <<" ","i","t","e","m","s",")","\n","\n">>

\* MarkdownFormatter::format
MarkdownFormat(grouped, order, total_count) ==
    Ok(<<<<"#"," ","T","O","D","O"," ","C","o","m","m","e","n","t","s","\n","\n">>,
         <<"F","o","u","n","d"," ">> \o ToDigits(total_count) \o <<" ","T","O","D","O"," ","c","o","m","m","e","n","t","s",":","\n","\n">>>>
       \o Concat([g \in DOMAIN order |->
                    <<MarkdownHeading(order[g], grouped[order[g]])>>
                    \o [n \in DOMAIN grouped[order[g]] |->
                          MarkdownItem(grouped[order[g]][n])]]))

-----------------------------------------------------------------------------
(* Specification SpecFormat: Output::save groups the records and calls the *)
(* formatter                                                               *)

\* p/a.rs
PATH_A == <<"p","/","a",".","r","s">>
TEXT_A == <<" "," ","/","/"," ","T","O","D","O",":"," ","a",",","b","\n","p","u","b"," ","f","n"," ","f","(",")"," ","{","\n","/","/"," ","F","I","X","M","E",":"," ","s","a","y"," ","\"","x","\"","\n">>
\* a file whose name holds a newline
PATH_N == <<"p","/","n","\n","l",".","r","s">>
TEXT_N == <<"/","/","B","U","G",":"," ","q">>

\* the records Parser::parse yields for these files
\* p/l.rs
PATH_L == <<"p","/","l",".","r","s">>
\* a marker line whose description is 26 two-byte characters, 52 bytes
TEXT_L == <<"/","/"," ","T","O","D","O",":"," ">> \o [i \in 1..26 |-> "é"]
\* the record of that line: the parser's offsets are counted in bytes, which
\* for this line alone differ from the characters the text model counts
R_LONG ==
    LET t == Parse(ParserNew(TestConfig).val, PATH_L, TEXT_L).val[1]
    IN [t EXCEPT !.column_end = StrLen(TEXT_L)]

RecordPool ==
    {R_LONG} \cup
    Range(Parse(ParserNew(TestConfig).val, PATH_A, TEXT_A).val)
    \cup Range(Parse(ParserNew(TestConfig).val, PATH_N, TEXT_N).val)

Formatters == {"CsvFormatter", "JsonFormatter", "TableFormatter", "TomlFormatter",
               "MarkdownFormatter"}

InitFormat ==
    /\ \E f \in Formatters, ts \in SeqsUpTo(RecordPool, MaxRecords) :
          call = [op |-> "format", formatter |-> f, todos |-> ts, order |-> <<>>,
                  grouped |-> <<>>, total_count |-> 0,
                  returned |-> FALSE, result |-> None]
    /\ IdleParse /\ IdleNew /\ IdleOut /\ IdleRun

\* Output::save with a CsvFormatter, up to the call of the writer
FormatCsv ==
    /\ call.op = "format" /\ call.formatter = "CsvFormatter" /\ ~call.returned
    /\ \E order \in Orders(GroupTodosByType(call.todos)) :
          call' = [call EXCEPT !.order = order,
                               !.grouped = GroupTodosByType(call.todos),
                               !.total_count = Len(call.todos), !.returned = TRUE,
                               !.result = CsvFormat(GroupTodosByType(call.todos), order,
                                                    Len(call.todos))]
    /\ UNCHANGED <<parseVars, newVars, outVars, run>>

\* Output::save with a JsonFormatter, up to the call of the writer
FormatJson ==
    /\ call.op = "format" /\ call.formatter = "JsonFormatter" /\ ~call.returned
    /\ \E order \in Orders(GroupTodosByType(call.todos)), fails \in BOOLEAN :
          call' = [call EXCEPT !.order = order,
                               !.grouped = GroupTodosByType(call.todos),
                               !.total_count = Len(call.todos), !.returned = TRUE,
                               !.result = JsonFormat(GroupTodosByType(call.todos), order,
                                                     Len(call.todos), fails)]
    /\ UNCHANGED <<parseVars, newVars, outVars, run>>

\* Output::save with a TableFormatter, up to the call of the writer; a panic
\* of the formatter ends the call without a result
FormatTable ==
    /\ call.op = "format" /\ call.formatter = "TableFormatter" /\ ~call.returned
    /\ \E order \in Orders(GroupTodosByType(call.todos)) :
          LET result == TableFormat(GroupTodosByType(call.todos), order, Len(call.todos))
          IN call' = [call EXCEPT !.order = order,
                               !.grouped = GroupTodosByType(call.todos),
                               !.total_count = Len(call.todos), !.returned = result.ok,
                                  !.op = IF result.ok THEN @ ELSE "panicked",
                                  !.result = result]
    /\ UNCHANGED <<parseVars, newVars, outVars, run>>

\* Output::save with a TomlFormatter, up to the call of the writer
FormatToml ==
    /\ call.op = "format" /\ call.formatter = "TomlFormatter" /\ ~call.returned
    /\ \E order \in Orders(GroupTodosByType(call.todos)), fails \in BOOLEAN :
          call' = [call EXCEPT !.order = order,
                               !.grouped = GroupTodosByType(call.todos),
                               !.total_count = Len(call.todos), !.returned = TRUE,
                               !.result = TomlFormat(GroupTodosByType(call.todos), order,
                                                     Len(call.todos), fails)]
    /\ UNCHANGED <<parseVars, newVars, outVars, run>>

\* Output::save with a MarkdownFormatter, up to the call of the writer
FormatMarkdown ==
    /\ call.op = "format" /\ call.formatter = "MarkdownFormatter" /\ ~call.returned
    /\ \E order \in Orders(GroupTodosByType(call.todos)) :
          call' = [call EXCEPT !.order = order,
                               !.grouped = GroupTodosByType(call.todos),
                               !.total_count = Len(call.todos), !.returned = TRUE,
                               !.result = MarkdownFormat(GroupTodosByType(call.todos), order,
                                                         Len(call.todos))]
    /\ UNCHANGED <<parseVars, newVars, outVars, run>>

NextFormat == FormatCsv \/ FormatJson \/ FormatTable \/ FormatToml \/ FormatMarkdown
SpecFormat == InitFormat /\ [][NextFormat]_vars

Formatted(f) ==
    call # <<>> /\ call.op = "format" /\ call.formatter = f /\ call.returned

\* the records in the order a formatter meets them: group after group in the
\* order of the map, each group in the order of the scan
RECURSIVE InOrder(_, _)
InOrder(ts, order) ==
    IF order = <<>> THEN <<>>
    ELSE SelectSeq(ts, LAMBDA r : r.todo_type = Head(order)) \o InOrder(ts, Tail(order))

\* the least element of a set of numbers, and the elements in ascending order
Sorted(S) == [n \in 1..Cardinality(S) |-> CHOOSE k \in S : Cardinality({x \in S : x <= k}) = n]

\* the text of a quoted field: of every pair of quotes, one
Undouble(s) ==
    LET QuotesFrom(k) == Least({m \in 1..k : \A x \in m..k : s[x] = "\""})
        Kept == {k \in DOMAIN s : s[k] = "\"" => (k - QuotesFrom(k)) % 2 = 0}
    IN [n \in 1..Cardinality(Kept) |-> s[Sorted(Kept)[n]]]

\* a reader of one CSV row, field after field from position i: an unquoted
\* field ends at the next comma, a quoted field at the first quote that closes
\* it (an odd quote not followed by a quote)
RECURSIVE CsvSplit(_, _, _)
CsvSplit(s, i, acc) ==
    IF i <= Len(s) /\ s[i] = "\""
    THEN LET Closing == {j \in (i + 1)..Len(s) :
                            /\ s[j] = "\""
                            /\ Cardinality({q \in (i + 1)..j : s[q] = "\""}) % 2 = 1
                            /\ (j = Len(s) \/ s[j + 1] # "\"")}
         IN IF Closing = {} THEN Append(acc, SubSeq(s, i, Len(s)))
            ELSE LET j == Least(Closing)
                     field == Undouble(SubSeq(s, i + 1, j - 1))
                 IN IF j = Len(s) THEN Append(acc, field)
                    ELSE CsvSplit(s, j + 2, Append(acc, field))
    ELSE LET Commas == {k \in i..Len(s) : s[k] = ","}
         IN IF Commas = {} THEN Append(acc, SubSeq(s, i, Len(s)))
            ELSE CsvSplit(s, Least(Commas) + 1,
                          Append(acc, SubSeq(s, i, Least(Commas) - 1)))

CsvRead(row) == CsvSplit(row, 1, <<>>)

\* the values of the eight fields of the row of a record
CsvValues(t) ==
    <<DebugName(t.todo_type), Trim(t.description), t.file_path, ToDigits(t.line_number),
      ToDigits(t.column_start), ToDigits(t.column_end),
      IF IsSome(t.function_context) THEN Unwrap(t.function_context) ELSE <<>>,
      Trim(t.original_text)>>

\* C17: the output of CsvFormatter::format is the header row and then one
\* row per record; a reader of CSV finds in the header the eight column names
\* and in the row of a record exactly its eight values, in the fixed order,
\* whatever commas, quotes or newlines they hold.
C17_CsvRows ==
    Formatted("CsvFormatter") =>
       LET out == call.result.val
           ts == InOrder(call.todos, call.order)
       IN /\ call.result.ok
          /\ Len(out) = 1 + Len(call.todos)
          /\ CsvRead(out[1]) = <<<<"T","y","p","e">>,
                               <<"D","e","s","c","r","i","p","t","i","o","n">>,
                               <<"F","i","l","e">>,
                               <<"L","i","n","e">>,
                               <<"C","o","l","u","m","n"," ","S","t","a","r","t">>,
                               <<"C","o","l","u","m","n"," ","E","n","d">>,
                               <<"F","u","n","c","t","i","o","n">>,
                               <<"O","r","i","g","i","n","a","l"," ","T","e","x","t">>>>
          /\ \A n \in DOMAIN ts :
                /\ Len(CsvRead(out[n + 1])) = 8
                /\ CsvRead(out[n + 1]) = CsvValues(ts[n])

\* rows were rendered for a record with a comma in a field and a record with
\* a quote in a field
C17_Witness ==
    /\ Formatted("CsvFormatter")
    /\ \E n \in DOMAIN call.todos : "," \in Range(call.todos[n].description)
    /\ \E n \in DOMAIN call.todos : "\"" \in Range(call.todos[n].description)
    /\ Len(call.result.val) = 3

\* the records of one type, in the order of the scan
OfType(ts, t) == SelectSeq(ts, LAMBDA r : r.todo_type = t)

\* the document of a JsonFormatter that returned Ok
JsonDocument == call.result.val[1]

\* the summary and the groups of the document: the counts, and one group for
\* each type present, with its name, its count and one item for each record
JsonShape ==
    LET doc == JsonDocument
    IN /\ Len(call.result.val) = 1
       /\ DOMAIN doc = {"summary", "groups"}
       /\ doc.summary = [total_todos |-> Len(call.todos), total_groups |-> Len(doc.groups)]
       /\ Len(doc.groups) = Cardinality({call.todos[i].todo_type : i \in DOMAIN call.todos})
       /\ \A g \in DOMAIN doc.groups :
             /\ DOMAIN doc.groups[g] = {"type", "count", "items"}
             /\ doc.groups[g].type = DebugName(call.order[g])
             /\ doc.groups[g].count = Len(doc.groups[g].items)
             /\ Len(doc.groups[g].items) = Len(OfType(call.todos, call.order[g]))

\* the item of a record carries "function" exactly when the record has a
\* function_context
JsonFunctionWhenPresent ==
    \A g \in DOMAIN JsonDocument.groups :
       \A n \in DOMAIN JsonDocument.groups[g].items :
          LET item == JsonDocument.groups[g].items[n]
              t == OfType(call.todos, call.order[g])[n]
          IN /\ "function" \in DOMAIN item <=> IsSome(t.function_context)
             /\ IsSome(t.function_context) => item["function"] = Unwrap(t.function_context)

\* the key under which an item would carry a field of TodoComment; the type
\* is the group's, the function_context is "function"
ItemKey ==
    [id |-> "id", file_path |-> "file", line_number |-> "line",
     column_start |-> "column_start", column_end |-> "column_end",
     original_text |-> "original_text", description |-> "description",
     context_lines |-> "context_lines"]

\* C18 as stated: JsonFormatter::format emits one document with the summary
\* and the groups, and every item carries all the fields of its record, the
\* "function" exactly when the record has one.
C18_ItemsCarryAllFields ==
    (Formatted("JsonFormatter") /\ call.result.ok) =>
       /\ JsonShape
       /\ JsonFunctionWhenPresent
       /\ \A g \in DOMAIN JsonDocument.groups :
             \A n \in DOMAIN JsonDocument.groups[g].items :
                \A f \in DOMAIN ItemKey :
                   ItemKey[f] \in DOMAIN JsonDocument.groups[g].items[n]

\* C18 as amended: JsonFormatter::format emits one document with the summary
\* and the groups, and every item carries of its record the description and
\* the original text, both trimmed, the file, the line and the two columns,
\* and "function" exactly when the record has a function_context; it carries
\* nothing else (no id, no context lines).
C18_ItemsCarrySixFields ==
    (Formatted("JsonFormatter") /\ call.result.ok) =>
       /\ JsonShape
       /\ JsonFunctionWhenPresent
       /\ \A g \in DOMAIN JsonDocument.groups :
             \A n \in DOMAIN JsonDocument.groups[g].items :
                LET item == JsonDocument.groups[g].items[n]
                    t == OfType(call.todos, call.order[g])[n]
                IN /\ DOMAIN item \ {"function"} =
                         {"description", "file", "line", "column_start", "column_end",
                          "original_text"}
                   /\ item.description = Trim(t.description)
                   /\ item.file = t.file_path
                   /\ item.line = t.line_number
                   /\ item.column_start = t.column_start
                   /\ item.column_end = t.column_end
                   /\ item.original_text = Trim(t.original_text)

\* a document of two groups, with a record that has a function_context, a
\* record that has none and a record whose original text is trimmed
C18_Witness ==
    /\ Formatted("JsonFormatter") /\ call.result.ok
    /\ Len(JsonDocument.groups) = 2
    /\ \E n \in DOMAIN call.todos : IsSome(call.todos[n].function_context)
    /\ \E n \in DOMAIN call.todos : ~IsSome(call.todos[n].function_context)
    /\ \E n \in DOMAIN call.todos :
          Trim(call.todos[n].original_text) # call.todos[n].original_text

\* TableFormatter::format was called and is over, by a return or by a panic
TableCalled ==
    /\ call # <<>> /\ call.formatter = "TableFormatter"
    /\ (call.op = "format" /\ call.returned) \/ call.op = "panicked"

\* C19: TableFormatter::format emits, when there is no record, exactly one
\* line, the "No TODO comments found." message; otherwise a summary line, a
\* blank line, the top border, the header row, the header separator, exactly
\* one row per record, and the bottom border.
C19_TableLines ==
    TableCalled =>
       LET out == call.result.val
           n == Len(call.todos)
       IN /\ call.result.ok
          /\ n = 0 => out = <<NoTodosLine>>
          /\ n > 0 =>
                /\ Len(out) = n + 6
                /\ out[1] = TableSummary(n, Len(call.order))
                /\ out[2] = <<>>
                /\ Head(out[3]) = "U+250C"
                /\ Head(out[4]) = "U+2502" /\ Contains(out[4], NoTodosLine) = FALSE
                /\ Contains(out[4], <<"T","y","p","e">>)
                /\ Head(out[5]) = "U+251C"
                /\ \A k \in 6..(n + 5) : Head(out[k]) = "U+2502"
                /\ Head(out[n + 6]) = "U+2514"

-----------------------------------------------------------------------------
(* Specification SpecFilter: the scan command with a type filter, on trees *)
(* whose files hold markers of two types                                   *)

\* tOdO
F_MIXED == <<"t","O","d","O">>
\* fixme
F_FIXME == <<"f","i","x","m","e">>
\* tod, the start of a type name
F_PART == <<"t","o","d">>

TypeFilters == {None, Some(F_TODO), Some(F_MIXED), Some(F_FIXME), Some(F_PART)}

InitFilter ==
    /\ \E cli \in [path : {ROOT}, format : {"Table"}, output : {None},
                   todo_type : TypeFilters]
                  \cup [path : {ROOT}, format : {"Json"}, output : {Some(O_JSON)},
                        todo_type : TypeFilters],
          tree \in SeqsUpTo({E_A, E_B}, MaxTree) : run = RunStart(cli, tree)
    /\ IdleParse /\ IdleNew /\ IdleOut /\ IdleCall

SpecFilter == InitFilter /\ [][Next]_vars

\* two texts that differ at most in the case of their letters
SameIgnoringCase(a, b) ==
    Len(a) = Len(b) /\ \A i \in DOMAIN a : UpperChar(a[i]) = UpperChar(b[i])

\* scan has returned Ok and scan_todos has gone past the filter
Filtered ==
    /\ run # <<>>
    /\ IsSome(run.scan.returned) /\ Unwrap(run.scan.returned).ok
    /\ run.pc # "scanned"

\* the scanned records a type filter lets through
Passing(scanned, todo_type) ==
    IF IsSome(todo_type)
    THEN SelectSeq(scanned, LAMBDA r :
            SameIgnoringCase(DebugName(r.todo_type), Unwrap(todo_type)))
    ELSE scanned

\* C20: once scan has returned its records, the records scan_todos keeps and
\* hands to the output stage are the scanned records whose type name is the
\* filter up to the case of the letters, in their order; all of them when no
\* filter is given, none (and no error) when the filter is no type name.
C20_TypeFilter ==
    Filtered =>
       LET passing == Passing(Unwrap(run.scan.returned).val, run.cli.todo_type)
       IN /\ run.filtered = passing
          /\ run.fatal \notin {"config", "patterns", "walk"}
          /\ IsSome(run.formatted) =>
                /\ Unwrap(run.formatted)[1].total_count = Len(passing)
                /\ Unwrap(run.formatted)[1].groups = GroupTodosByType(passing)

\* a filter written in mixed case kept one of two scanned records, which was
\* formatted
C20_Witness ==
    /\ Filtered
    /\ run.cli.todo_type = Some(F_MIXED)
    /\ Len(Unwrap(run.scan.returned).val) = 2
    /\ Len(run.filtered) = 1
    /\ IsSome(run.formatted)

\* the step of Output::save in which it groups the records and formats them
SaveStep ==
    /\ call # <<>> /\ call.op = "format" /\ ~call.returned
    /\ call' # call

\* the positions in ts of the records of type t, in ascending order
PositionsOf(ts, t) == Sorted({i \in DOMAIN ts : ts[i].todo_type = t})

\* C21: group_todos_by_type partitions the flat list by type: the keys are the
\* types present, the group of a type holds exactly the records of that type,
\* each once and in the order of the flat list, so that every record is in
\* one group, the one of its own type; and the flat list is left as it was.
C21_GroupingPartitions ==
    [][SaveStep =>
          /\ call'.todos = call.todos
          /\ DOMAIN call'.grouped = {call.todos[i].todo_type : i \in DOMAIN call.todos}
          /\ \A t \in DOMAIN call'.grouped :
                /\ Len(call'.grouped[t]) = Len(PositionsOf(call.todos, t))
                /\ \A n \in DOMAIN call'.grouped[t] :
                      call'.grouped[t][n] = call.todos[PositionsOf(call.todos, t)[n]]]_vars

\* a list of two different records of one type was grouped
C21_Witness ==
    /\ call # <<>> /\ call.op = "format" /\ call.returned
    /\ Len(call.todos) = 2
    /\ call.todos[1] # call.todos[2]
    /\ call.todos[1].todo_type = call.todos[2].todo_type
    /\ Len(call.grouped[call.todos[1].todo_type]) = 2

\* the entries taken from the walker so far that are eligible files
ExaminedEligible == {i \in 1..run.scan.examined : Eligible(run.tree[i])}

\* what scan_file is to answer for an entry whose canonical path is refused
RefusalOf(i) ==
    IF ~IsSome(run.tree[i].canonical) THEN <<"InvalidPath", PathOf(i)>>
    ELSE <<"PathTraversalAttempt", PathOf(i)>>

\* the canonical path of the entry cannot be computed or holds ".."
Refused(i) ==
    \/ ~IsSome(run.tree[i].canonical)
    \/ \E p \in 1..Len(Unwrap(run.tree[i].canonical)) - 1 :
          Unwrap(run.tree[i].canonical)[p] = "." /\ Unwrap(run.tree[i].canonical)[p + 1] = "."

\* C22: an eligible file whose path cannot be canonicalized gets InvalidPath,
\* one whose canonical path holds ".." gets PathTraversalAttempt; such a file
\* was handed to scan_file but never to read_to_string, no record names it,
\* and the walk goes on: while the walker yields no error, scan has either
\* not returned or has taken every entry and returned Ok.
C22_CanonicalBeforeRead ==
    (run # <<>> /\ run.pc \in {"walk", "scanned"}
     /\ WalkErrors(SubSeq(run.tree, 1, run.scan.examined)) = {}) =>
       /\ \A i \in ExaminedEligible : Refused(i) =>
             /\ PathOf(i) \in Range(run.scan.calls)
             /\ PathOf(i) \notin Range(run.scan.reads)
             /\ RefusalOf(i) \in Range(run.scan.errors)
             /\ \A k \in DOMAIN run.scan.todos : run.scan.todos[k].file_path # PathOf(i)
       /\ IsSome(run.scan.returned) =>
             /\ run.scan.examined = Len(run.tree)
             /\ Unwrap(run.scan.returned).ok

\* a walk that went on after both refusals and read the file after them
C22_Witness ==
    /\ run # <<>> /\ run.pc = "scanned"
    /\ Len(run.tree) = 3
    /\ Eligible(run.tree[1]) /\ ~IsSome(run.tree[1].canonical)
    /\ Eligible(run.tree[2]) /\ IsSome(run.tree[2].canonical) /\ Refused(2)
    /\ Eligible(run.tree[3]) /\ FileSucceeds(run.tree[3])
    /\ Len(run.scan.errors) = 2
    /\ run.scan.reads = <<PathOf(3)>>
    /\ run.scan.todos # <<>>

\* the configuration the parser of the state was built from, known by its
\* count of context lines
ConfigOf == CHOOSE cfg \in ValidConfigs : cfg.include_context_lines = cfgContext

\* the text of the line that the marker pattern of a record matched
MatchedText(t) == SubSeq(t.original_text, t.column_start + 1, t.column_end)

\* C23: every record has the type of a marker pattern that matched its line
\* where the record says, and that type is the one whose keyword the source
\* text of the pattern holds, whatever case it is written in and whatever
\* keywords the matched text of the line holds.
C23_TypeFromPattern ==
    parsePc = "done" =>
       \A n \in DOMAIN todos :
          \E k \in DOMAIN parser.patterns :
             LET caps == Captures(parser.patterns[k].regex, todos[n].original_text) IN
             /\ IsSome(caps)
             /\ Unwrap(caps).start = todos[n].column_start
             /\ Unwrap(caps).end = todos[n].column_end
             /\ todos[n].todo_type = parser.patterns[k].todo_type
             /\ Contains(ToUppercase(ConfigOf.todo_patterns[k]), KeywordOf(todos[n].todo_type))

\* a record of type Fixme whose matched text holds no other keyword, after a
\* record of type Todo whose matched text holds the keyword FIXME
C23_Witness ==
    /\ parsePc = "done"
    /\ \E n \in DOMAIN todos :
          /\ todos[n].todo_type = "Todo"
          /\ Contains(ToUppercase(MatchedText(todos[n])), W_FIXME)
    /\ \E n \in DOMAIN todos :
          /\ todos[n].todo_type = "Fixme"
          /\ Contains(ToUppercase(todos[n].original_text), W_TODO)

\* the five values of a record's row, and those of the header row
RowValues(t) ==
    <<DebugName(t.todo_type), Trim(t.description), t.file_path, ToDigits(t.line_number),
      IF IsSome(t.function_context) THEN Unwrap(t.function_context) ELSE <<>>>>
HeaderValues ==
    <<<<"T","y","p","e">>, <<"D","e","s","c","r","i","p","t","i","o","n">>,
      <<"F","i","l","e">>, <<"L","i","n","e">>, <<"F","u","n","c","t","i","o","n">>>>

\* the visible width of a column: that of its header or of its widest value,
\* the values of the description, file and function columns counted up to
\* 50, 40 and 30
VisibleWidth(ts, c) ==
    LET cap == <<Len(ts) + 99, 50, 40, Len(ts) + 99, 30>>
        Capped(v) == IF c \in {2, 3, 5} /\ Len(v) > cap[c] THEN cap[c] ELSE Len(v)
    IN Greatest({Len(HeaderValues[c])} \cup {Capped(RowValues(ts[n])[c]) : n \in DOMAIN ts})

\* where the cell of column c starts in a row: after the left border and a
\* space, each cell being followed by a space, a bar and a space
CellStart(ts, c) ==
    IF c = 1 THEN 3
    ELSE IF c = 2 THEN 6 + VisibleWidth(ts, 1)
    ELSE IF c = 3 THEN 9 + VisibleWidth(ts, 1) + VisibleWidth(ts, 2)
    ELSE IF c = 4 THEN 12 + VisibleWidth(ts, 1) + VisibleWidth(ts, 2) + VisibleWidth(ts, 3)
    ELSE 15 + VisibleWidth(ts, 1) + VisibleWidth(ts, 2) + VisibleWidth(ts, 3)
            + VisibleWidth(ts, 4)

\* the text a value is rendered as in a column of width w, before padding
Rendered(v, w) == IF Len(v) > w THEN SubSeq(v, 1, w - 1) \o <<"U+2026">> ELSE v

\* the row shows the values, each in a cell of its column's width
RowShows(row, values, ts) ==
    \A c \in 1..5 :
       LET w == VisibleWidth(ts, c)
           cell == SubSeq(row, CellStart(ts, c), CellStart(ts, c) + w - 1)
           text == Rendered(values[c], w)
           blank == [i \in 1..(w - Len(text)) |-> " "]
       IN cell = text \o blank \/ cell = blank \o text

\* C24: the width of each column of the table is the greatest visible width
\* of its header and its values (description, file and function capped at 50,
\* 40 and 30); a value longer than the width shows as its first width - 1
\* characters and an ellipsis; every cell has its column's width, and every
\* row and border line has the same visible length.
C24_TableWidths ==
    (TableCalled /\ Len(call.todos) > 0) =>
       LET out == call.result.val
           ts == InOrder(call.todos, call.order)
           width == 16 + VisibleWidth(ts, 1) + VisibleWidth(ts, 2) + VisibleWidth(ts, 3)
                       + VisibleWidth(ts, 4) + VisibleWidth(ts, 5)
       IN /\ call.result.ok
          /\ Len(out) = Len(ts) + 6
          /\ \A k \in 3..Len(out) : Len(out[k]) = width
          /\ RowShows(out[4], HeaderValues, ts)
          /\ \A n \in DOMAIN ts : RowShows(out[n + 5], RowValues(ts[n]), ts)

\* the records of line l, in the order of the list
RecordsAt(l) == SelectSeq(todos, LAMBDA t : t.line_number = l)

\* the marker patterns that match line l, in the configured order
PatternsMatching(l) ==
    Sorted({k \in DOMAIN parser.patterns : IsSome(Captures(parser.patterns[k].regex, lines[l]))})

\* C25: the list parse returns is ordered by line, and the records of one
\* line are those of the marker patterns that match it, in the configured
\* order of the patterns: the n-th record of the line has the type and the
\* columns of the n-th matching pattern. So the first record of the list is
\* that of the first line with records and of its first matching pattern.
C25_RecordsOrdered ==
    parsePc = "done" =>
       /\ \A n, m \in DOMAIN todos : n < m => todos[n].line_number <= todos[m].line_number
       /\ \A l \in DOMAIN lines :
             RecordsAt(l) # <<>> =>
                /\ Len(RecordsAt(l)) = Len(PatternsMatching(l))
                /\ \A n \in DOMAIN RecordsAt(l) :
                      LET pattern == parser.patterns[PatternsMatching(l)[n]]
                          caps == Unwrap(Captures(pattern.regex, lines[l]))
                      IN /\ RecordsAt(l)[n].todo_type = pattern.todo_type
                         /\ RecordsAt(l)[n].column_start = caps.start
                         /\ RecordsAt(l)[n].column_end = caps.end
       /\ todos # <<>> =>
             /\ \A l \in 1..(todos[1].line_number - 1) :
                   ~(IsComment(parser, lines[l]) /\ PatternsMatching(l) # <<>>)
             /\ todos[1].todo_type =
                   parser.patterns[PatternsMatching(todos[1].line_number)[1]].todo_type

\* two records of one line, of two patterns, and then a record of the next
C25_Witness ==
    /\ parsePc = "done"
    /\ Len(todos) = 3
    /\ todos[1].line_number = 1 /\ todos[2].line_number = 1 /\ todos[3].line_number = 2
    /\ todos[1].todo_type # todos[2].todo_type
    /\ todos[1].column_start < todos[2].column_start

\* a sink of the run was touched: the file created or written, or a line printed
SinkTouched == run.file.created \/ run.file.lines # <<>> \/ run.stdout # <<>>

\* Output::save returned the error of the formatter
FormatFailed ==
    /\ IsSome(run.save) /\ ~Unwrap(run.save).ok
    /\ Unwrap(run.save).err[1] = "UnableToFormatTodos"

\* C26: a sink is touched only by a save whose formatter returned Ok: not
\* before save has run its writer (so not by Output::new), and not by a save
\* that returns UnableToFormatTodos, which leaves no file and prints nothing.
C26_WriterAfterFormatter ==
    run # <<>> =>
       /\ SinkTouched =>
             /\ IsSome(run.outputter) /\ IsSome(run.formatted)
             /\ IsSome(run.save) /\ ~FormatFailed
       /\ FormatFailed => ~IsSome(run.formatted) /\ ~SinkTouched
       /\ run.pc \in {"main", "walk", "scanned", "filtered", "save", "write"} => ~SinkTouched

\* a save to a file whose formatter failed
C26_Witness ==
    /\ run # <<>>
    /\ FormatFailed
    /\ Unwrap(run.outputter).writer.kind = "File"
    /\ run.filtered # <<>>
    /\ ~run.file.created

\* the root path of the scan holds ".."
RootGoesUp ==
    \E p \in 1..(Len(run.cli.path) - 1) : run.cli.path[p] = "." /\ run.cli.path[p + 1] = "."

\* no file was handed to scan_file or read, no record made, no error logged
NothingScanned ==
    /\ run.scan.calls = <<>> /\ run.scan.reads = <<>>
    /\ run.scan.todos = <<>> /\ run.scan.logged = 0

\* C27 as stated: with a root path that holds "..", scan reads no file and
\* returns Ok with an empty list, reporting no error to the caller.
C27_RootWithDotDotIsOkEmpty ==
    (run # <<>> /\ RootGoesUp) =>
       /\ NothingScanned
       /\ run.pc = "scanned" => run.scan.returned = Some(Ok(<<>>))

\* C27 as amended: with a root path that holds "..", no file is eligible:
\* scan reads no file and makes no record, and returns Ok with an empty list
\* unless the walker itself yields an error, which scan returns to the caller.
C27_RootWithDotDotScansNothing ==
    (run # <<>> /\ RootGoesUp) =>
       /\ NothingScanned
       /\ run.pc = "scanned" =>
             IF WalkErrors(run.tree) = {}
             THEN /\ run.scan.returned = Some(Ok(<<>>))
                  /\ run.scan.examined = Len(run.tree)
             ELSE /\ ~Unwrap(run.scan.returned).ok
                  /\ Unwrap(run.scan.returned).err = <<"UnableToWalkFile">>

\* a scan from ../p that met two files with markers and returned
C27_Witness ==
    /\ run # <<>> /\ RootGoesUp
    /\ run.pc = "scanned"
    /\ Len(run.tree) = 2
    /\ \A i \in DOMAIN run.tree :
          /\ run.tree[i].walk_ok /\ run.tree[i].is_file /\ FileSucceeds(run.tree[i])
          /\ ExtensionListed(PathOf(i))
          /\ WouldYield(i) # <<>>
    /\ run.scan.returned = Some(Ok(<<>>))

-----------------------------------------------------------------------------
(* Specification SpecTryFrom: the two conversions of a text to a TodoType *)

\* the words the texts are made of: the five keywords in several cases, a
\* part of a keyword, and a word that is no keyword
TextWords == {<<"t","o","d","o">>, <<"F","I","X","M","E">>, <<"H","a","c","k">>, <<"n","O","T","e">>, <<"b","u","g">>, <<"T","O","D">>, <<"x","y","z">>}

\* the texts: up to MaxWords words, a ":" after each
TryFromTexts ==
    {Concat([i \in DOMAIN ws |-> ws[i] \o <<":">>]) : ws \in SeqsUpTo(TextWords, MaxWords)}

InitTryFrom ==
    /\ \E value \in TryFromTexts :
          call = [op |-> "try_from", value |-> value, from_str |-> None, from_string |-> None]
    /\ IdleParse /\ IdleNew /\ IdleOut /\ IdleRun

\* TodoType::try_from(value: &str)
CallTryFromStr ==
    /\ call.op = "try_from" /\ call.from_str = None
    /\ call' = [call EXCEPT !.from_str = Some(TodoTypeTryFrom(call.value))]
    /\ UNCHANGED <<parseVars, newVars, outVars, run>>

\* TodoType::try_from(value: String)
CallTryFromString ==
    /\ call.op = "try_from" /\ call.from_string = None
    /\ call' = [call EXCEPT !.from_string = Some(TodoTypeTryFromString(call.value))]
    /\ UNCHANGED <<parseVars, newVars, outVars, run>>

NextTryFrom == CallTryFromStr \/ CallTryFromString
SpecTryFrom == InitTryFrom /\ [][NextTryFrom]_vars

\* the types in the order of their priority
TypePriority == <<"Todo", "Fixme", "Hack", "Note", "Bug">>

\* the keyword of the type occurs in the text, in whatever case
Names(text, t) ==
    \E p \in 1..Len(text) :
       /\ p + Len(KeywordOf(t)) - 1 <= Len(text)
       /\ \A j \in 1..Len(KeywordOf(t)) : UpperChar(text[p + j - 1]) = KeywordOf(t)[j]

\* the result the claim gives a text: the first type, by priority, that the
\* text names, or the error that holds the text
Resolves(result, text) ==
    LET named == {i \in DOMAIN TypePriority : Names(text, TypePriority[i])}
    IN IF named = {}
       THEN ~result.ok /\ result.err = <<"UnknownTodoType", text>>
       ELSE result.ok /\ result.val = TypePriority[Least(named)]

\* C28: try_from gives a text the first of TODO, FIXME, HACK, NOTE, BUG that
\* occurs in it upper-cased, wherever the keywords stand in the text, and an
\* error exactly when none occurs; the conversions from &str and from String
\* give the same result.
C28_KeywordPriority ==
    (call # <<>> /\ call.op = "try_from") =>
       /\ IsSome(call.from_str) => Resolves(Unwrap(call.from_str), call.value)
       /\ IsSome(call.from_string) => Resolves(Unwrap(call.from_string), call.value)
       /\ (IsSome(call.from_str) /\ IsSome(call.from_string)) =>
             /\ Unwrap(call.from_str).ok = Unwrap(call.from_string).ok
             /\ Unwrap(call.from_str).val = Unwrap(call.from_string).val

\* a text with FIXME before TODO, converted both ways to Todo
C28_Witness ==
    /\ call # <<>> /\ call.op = "try_from"
    /\ call.value = <<"F","I","X","M","E">> \o <<":">> \o <<"t","o","d","o">> \o <<":">>
    /\ IsSome(call.from_str) /\ IsSome(call.from_string)
    /\ Unwrap(call.from_str).ok /\ Unwrap(call.from_str).val = "Todo"

-----------------------------------------------------------------------------
(* Specification SpecDeclParse: Parser::parse on contents with declarations *)
(* above, on and below the marker lines                                     *)

\* fn f(){//TODO: a
L_FN_MARK == <<"f","n"," ","f","(",")","{","/","/","T","O","D","O",":"," ","a">>

DeclLineSet == {L_FN_MARK, L_MARK, L_FN, L_IMPL, L_CODE}

InitDeclParse ==
    /\ \E cfg \in {TestConfig, ImplConfig} :
          /\ parser = ParserNew(cfg).val
          /\ cfgContext = cfg.include_context_lines
    /\ \E ls \in SeqsUpTo(DeclLineSet, MaxCtxLines) : content = Text(ls, FALSE)
    /\ lines = StrLines(content)
    /\ line_idx = 0
    /\ todos = <<>>
    /\ parsePc = "loop"
    /\ IdleNew /\ IdleOut /\ IdleRun /\ IdleCall

SpecDeclParse == InitDeclParse /\ [][NextParse]_vars

\* the text is name:k, the name made of letters, digits and underscores and
\* found on line k
IsContextOf(text, k) ==
    LET suffix == <<":">> \o ToDigits(k)
        n == Len(text) - Len(suffix)
    IN /\ n >= 1
       /\ SubSeq(text, n + 1, Len(text)) = suffix
       /\ \A i \in 1..n : IsAlphanumeric(text[i]) \/ text[i] = "_"
       /\ Contains(lines[k], SubSeq(text, 1, n))

\* C29: a function_context that is present reads name:k, with a name of one
\* or more letters, digits or underscores, found on line k, and k from 1 to
\* the line of the record: never a line below the marker.
C29_ContextAtOrAboveMarker ==
    parsePc \in {"loop", "done"} =>
       \A n \in DOMAIN todos :
          IsSome(todos[n].function_context) =>
             \E k \in 1..todos[n].line_number :
                IsContextOf(Unwrap(todos[n].function_context), k)

\* a marker on the line of a declaration, with another declaration below it:
\* the record names the declaration of its own line
C29_Witness ==
    /\ parsePc = "done"
    /\ Len(lines) = 3
    /\ lines[2] = L_FN_MARK /\ lines[3] = L_FN
    /\ \E n \in DOMAIN todos :
          /\ todos[n].line_number = 2
          /\ todos[n].function_context = Some(<<"f", ":", "2">>)

-----------------------------------------------------------------------------
(* C30: the counts a formatter reports                                     *)

\* the sum of a sequence of numbers
RECURSIVE SumSeq(_)
SumSeq(ns) == IF ns = <<>> THEN 0 ELSE Head(ns) + SumSeq(Tail(ns))

\* the sum of the sizes of the groups of a map
RECURSIVE SumOfSizes(_)
SumOfSizes(grouped) ==
    IF DOMAIN grouped = {} THEN 0
    ELSE LET t == CHOOSE x \in DOMAIN grouped : TRUE
         IN Len(grouped[t]) + SumOfSizes([x \in DOMAIN grouped \ {t} |-> grouped[x]])

\* the elements of a finite set, one after the other
RECURSIVE SeqOf(_)
SeqOf(S) ==
    IF S = {} THEN <<>>
    ELSE LET x == CHOOSE y \in S : TRUE IN <<x>> \o SeqOf(S \ {x})

\* the number written in decimal digits
RECURSIVE DigitsValue(_)
DigitsValue(ds) ==
    IF ds = <<>> THEN 0
    ELSE 10 * DigitsValue(SubSeq(ds, 1, Len(ds) - 1))
         + (CHOOSE d \in 0..9 : DigitChars[d + 1] = ds[Len(ds)])

\* the number a text shows from position p on: its digits up to the first
\* character that is no digit
NumberAt(s, p) ==
    LET stop == Least({q \in p..(Len(s) + 1) : q = Len(s) + 1 \/ s[q] \notin Range(DigitChars)})
    IN DigitsValue(SubSeq(s, p, stop - 1))

\* the position that follows the first occurrence of sub in s
After(s, sub) == Least({p \in 1..Len(s) : OccursAt(s, sub, p)}) + Len(sub)

\* what a JSON or TOML document reports: its total, its group count and the
\* counts of its groups
JsonReport(doc) ==
    [total |-> doc.summary.total_todos, groups |-> Some(doc.summary.total_groups),
     counts |-> [g \in DOMAIN doc.groups |-> doc.groups[g].count]]
TomlReport(doc) ==
    LET keys == SeqOf(DOMAIN doc \ {SUMMARY_KEY})
    IN [total |-> doc[SUMMARY_KEY].total_todos, groups |-> Some(doc[SUMMARY_KEY].total_groups),
        counts |-> [g \in DOMAIN keys |-> doc[keys[g]].count]]

\* what a Markdown document reports: the total of its second line and the
\* count of each heading; it reports no group count
MarkdownReport(out) ==
    LET headings == SelectSeq(out, LAMBDA l : OccursAt(l, <<"#","#"," ">>, 1))
    IN [total |-> NumberAt(out[2], After(out[2], <<"F","o","u","n","d"," ">>)), groups |-> None,
        counts |-> [g \in DOMAIN headings |-> NumberAt(headings[g], After(headings[g], <<"(">>))]]

\* what a table reports: the total and the group count of its first line,
\* and for each type the rows that show it
TableReport(out) ==
    LET rows == SubSeq(out, 6, Len(out) - 1)
        shown == SeqOf({t \in TodoTypes : \E n \in DOMAIN rows :
                            OccursAt(rows[n], <<"U+2502", " ">> \o DebugName(t) \o <<" ">>, 1)})
    IN [total |-> NumberAt(out[1], After(out[1], <<"F","o","u","n","d"," ">>)),
        groups |-> Some(NumberAt(out[1], After(out[1], <<" ","i","n"," ">>))),
        counts |-> [g \in DOMAIN shown |->
                      Cardinality({n \in DOMAIN rows :
                          OccursAt(rows[n], <<"U+2502", " ">> \o DebugName(shown[g]) \o <<" ">>, 1)})]]

\* the formatters whose output reports counts, and what the output of the
\* finished call reports
Reporting ==
    /\ call # <<>> /\ call.op = "format" /\ call.returned
    /\ call.result.ok
    /\ \/ call.formatter \in {"JsonFormatter", "TomlFormatter", "MarkdownFormatter"}
       \/ call.formatter = "TableFormatter" /\ call.result.val # <<NoTodosLine>>
Report ==
    CASE call.formatter = "JsonFormatter" -> JsonReport(call.result.val[1])
      [] call.formatter = "TomlFormatter" -> TomlReport(call.result.val[1])
      [] call.formatter = "MarkdownFormatter" -> MarkdownReport(call.result.val)
      [] call.formatter = "TableFormatter" -> TableReport(call.result.val)

\* Output::save has grouped the records and called the formatter
FormatterCalled ==
    call # <<>> /\ (call.op = "panicked" \/ (call.op = "format" /\ call.returned))

\* C30: in every call of a formatter made by Output::save the map has no
\* empty group and at most five groups, and the sizes of its groups sum to
\* the total_count passed; so in the JSON, TOML, Markdown and table output
\* the reported counts of the groups sum to the reported total, and the
\* reported group count is zero exactly when the total is zero.
C30_CountsAgree ==
    /\ FormatterCalled =>
          /\ \A t \in DOMAIN call.grouped : Len(call.grouped[t]) >= 1
          /\ Cardinality(DOMAIN call.grouped) <= 5
          /\ SumOfSizes(call.grouped) = call.total_count
    /\ Reporting =>
          /\ SumSeq(Report.counts) = Report.total
          /\ IsSome(Report.groups) => (Unwrap(Report.groups) = 0 <=> Report.total = 0)

\* a TOML document of two groups of one record each was printed
C30_Witness ==
    /\ Reporting /\ call.formatter = "TomlFormatter"
    /\ Report.total = 2 /\ Report.groups = Some(2)
    /\ Report.counts = <<1, 1>>
=============================================================================
